---- MODULE Spec2Model ----
(***************************************************************************)
(* State-machine model of the two hash structures of the repository:      *)
(*   - DoubleKeyTable     (src/double_key_table.py)                        *)
(*   - InfiniteHashTable  (src/infinite_hash_table.py)                     *)
(* and of the two mountain collaborators that are checked with them:       *)
(*   - Trail              (src/trail.py)                                   *)
(*   - MountainOrganiser  (src/mountain_organiser.py)                      *)
(* Keys are Python strings; they are modelled as sequences of character    *)
(* codes (ord), so that the hash functions are computed as the code        *)
(* computes them.  Python index i of an array is index i + 1 of the        *)
(* sequence that models it.  A raised Python exception is the field exc    *)
(* of an operation's result ("none" when the call returns); the object     *)
(* state carried with it is the state the code had reached when it raised. *)
(***************************************************************************)
EXTENDS Integers, Sequences, FiniteSets, TLC

VARIABLES
    top_table_sizes,        \* DoubleKeyTable.top_table_sizes
    internal_table_sizes,   \* DoubleKeyTable.internal_table_sizes
    top_array,              \* DoubleKeyTable.top_array
    length,                 \* DoubleKeyTable.length
    top_length,             \* DoubleKeyTable.top_length
    top_table_sizes_index,  \* DoubleKeyTable.top_table_sizes_index
    root,                   \* the level-0 InfiniteHashTable
    live,                   \* history: the key -> value map the trie's callers were told they hold
    op,                     \* the last call made: its name and arguments
    ret,                    \* what the last call did: the exception raised, or "none"
    nops,                   \* number of calls made on the DoubleKeyTable so far
    store,                  \* Trail.store of the trail under test
    mountains,              \* MountainOrganiser.mountains
    lengths,                \* MountainOrganiser.lengths
    added,                  \* history: the Mountain objects given to add_mountains, in order
    returned                \* what the last query on a trail or an organiser returned

vars == <<top_table_sizes, internal_table_sizes, top_array, length, top_length,
          top_table_sizes_index, root, live, op, ret, nops,
          store, mountains, lengths, added, returned>>

dktVars == <<top_table_sizes, internal_table_sizes, top_array, length, top_length,
             top_table_sizes_index>>

trieVars == <<root, live>>

trailVars == <<store>>

organiserVars == <<mountains, lengths, added>>

(***************************************************************************)
(* Bounds of the model and the inputs of the calls.                        *)
(***************************************************************************)
\* calls per behaviour of the DoubleKeyTable (its counters can drift without bound)
MaxOps == 7

\* Python's recursion limit, scaled down: the depth of nested
\* InfiniteHashTable.__setitem__ calls at which RecursionError is raised
RecursionLimit == 6

\* calls of next made on one iterator: more than the entries a table of
\* MaxOps calls can hold
MaxNext == 9

\* the sizes given to DoubleKeyTable(sizes=[3, 5], internal_sizes=[2, 3])
ConfigTopSizes == <<3, 5>>
ConfigInternalSizes == <<2, 3>>

\* K1 keys "a", "f", "k": all three hash to 2 in an outer array of 5
DKeys1 == {<<97>>, <<102>>, <<107>>}
\* K2 keys "x", "z": they hash to 0, 0 in a bucket of 2 and to 0, 2 in a bucket of 3
DKeys2 == {<<120>>, <<122>>}
DValues == {1, 2}

\* trie keys "cat", "car", "ca", "cot", "dog"
TKeys == {<<99, 97, 116>>, <<99, 97, 114>>, <<99, 97>>, <<99, 111, 116>>, <<100, 111, 103>>}
TValues == {1, 2}

\* splits and series of the trail under test
MaxTrailSize == 4

\* the k of length_k_paths(k) runs over 0..MaxK
MaxK == 3

\* mountains given to one MountainOrganiser
MaxMountains == 4

None == <<>>

NoExc == "none"

(***************************************************************************)
(* Hashing.                                                                *)
(***************************************************************************)
HASH_BASE == 31

HashSeed == 31415

\* the loop of hash1 / hash2: value = (ord(char) + a * value) % size,
\* a = a * HASH_BASE % (size - 1)
RECURSIVE RollingHash(_, _, _, _, _)
RollingHash(key, i, value, a, size) ==
    IF i > Len(key) THEN value
    ELSE RollingHash(key, i + 1, (key[i] + a * value) % size,
                     (a * HASH_BASE) % (size - 1), size)

\* the DoubleKeyTable object as one record of its fields
Self ==
    [top_table_sizes |-> top_table_sizes,
     internal_table_sizes |-> internal_table_sizes,
     top_array |-> top_array,
     length |-> length,
     top_length |-> top_length,
     top_table_sizes_index |-> top_table_sizes_index]

table_size(T) == Len(T.top_array)

hash1(T, key) == RollingHash(key, 1, 0, HashSeed, table_size(T))

hash2(key, sub_table) == RollingHash(key, 1, 0, HashSeed, Len(sub_table.array))

(***************************************************************************)
(* The inner bucket (LinearProbeTable, the spec's ProbeBucket).  A bucket  *)
(* is [array, count, size_index, hpos]; hpos is the top_position captured  *)
(* by the lambda that _linear_probe installs as the bucket's hash.  The    *)
(* bucket operations take the whole table T and the outer position pos of  *)
(* the bucket, because that lambda reads self.top_array when it is called. *)
(***************************************************************************)
EmptyArray(n) == [i \in 1..n |-> None]

\* the outer slot (key1, table) at Python index pos
Tab(T, pos) == T.top_array[pos + 1][2]

SetTab(T, pos, b) == [T EXCEPT !.top_array[pos + 1][2] = b]

\* LinearProbeTable(self.internal_table_sizes) with its hash replaced by
\* lambda k: self.hash2(k, self.top_array[top_position][self.table_pos])
NewBucket(T, top_position) ==
    [array |-> EmptyArray(T.internal_table_sizes[1]),
     count |-> 0,
     size_index |-> 0,
     hpos |-> top_position]

\* a call of the bucket's hash: the lambda subscripts whatever
\* self.top_array[top_position] holds now (None raises TypeError)
BucketHash(T, pos, key) ==
    LET target == T.top_array[Tab(T, pos).hpos + 1]
    IN  IF target = None
        THEN [exc |-> "TypeError", h |-> 0]
        ELSE [exc |-> NoExc, h |-> hash2(key, target[2])]

\* the scan of ProbeBucket.find: up to size steps from position
RECURSIVE ProbeLoop(_, _, _, _, _)
ProbeLoop(array, key, is_insert, position, steps) ==
    IF steps = 0
    THEN [exc |-> IF is_insert THEN "FullError" ELSE "KeyError", position |-> 0]
    ELSE IF position >= Len(array)
    THEN [exc |-> "IndexError", position |-> 0]
    ELSE IF array[position + 1] = None
    THEN IF is_insert
         THEN [exc |-> NoExc, position |-> position]
         ELSE [exc |-> "KeyError", position |-> 0]
    ELSE IF array[position + 1][1] = key
    THEN [exc |-> NoExc, position |-> position]
    ELSE ProbeLoop(array, key, is_insert, (position + 1) % Len(array), steps - 1)

\* ProbeBucket.find(key, insert)
bucket_find(T, pos, key, is_insert) ==
    LET h == BucketHash(T, pos, key)
    IN  IF h.exc # NoExc
        THEN [exc |-> h.exc, position |-> 0]
        ELSE ProbeLoop(Tab(T, pos).array, key, is_insert, h.h, Len(Tab(T, pos).array))

\* ProbeBucket.get(key)
bucket_get(T, pos, key) ==
    LET f == bucket_find(T, pos, key, FALSE)
    IN  IF f.exc # NoExc
        THEN [exc |-> f.exc, value |-> 0]
        ELSE [exc |-> NoExc, value |-> Tab(T, pos).array[f.position + 1][2]]

\* key in bucket: only KeyError is caught
bucket_contains(T, pos, key) ==
    LET g == bucket_get(T, pos, key)
    IN  IF g.exc = "KeyError" THEN [exc |-> NoExc, value |-> FALSE]
        ELSE IF g.exc # NoExc THEN [exc |-> g.exc, value |-> FALSE]
        ELSE [exc |-> NoExc, value |-> TRUE]

\* the entries of a bucket in slot order: keys() and values() list them so
RECURSIVE ItemsFrom(_, _)
ItemsFrom(array, x) ==
    IF x >= Len(array) THEN <<>>
    ELSE IF array[x + 1] = None THEN ItemsFrom(array, x + 1)
    ELSE <<array[x + 1]>> \o ItemsFrom(array, x + 1)

bucket_items(array) == ItemsFrom(array, 0)

RECURSIVE bucket_set(_, _, _, _)
RECURSIVE bucket_grow(_, _)
RECURSIVE bucket_reinsert(_, _, _, _)

\* ProbeBucket.set(key, data): find, write, grow past half capacity
bucket_set(T, pos, key, data) ==
    LET b == Tab(T, pos)
        f == bucket_find(T, pos, key, TRUE)
    IN  IF f.exc # NoExc
        THEN [t |-> T, exc |-> f.exc]
        ELSE LET b1 == [b EXCEPT !.array[f.position + 1] = <<key, data>>,
                                 !.count = IF b.array[f.position + 1] = None
                                           THEN @ + 1 ELSE @]
                 T1 == SetTab(T, pos, b1)
             IN  IF 2 * b1.count > Len(b1.array)
                 THEN bucket_grow(T1, pos)
                 ELSE [t |-> T1, exc |-> NoExc]

\* ProbeBucket.grow(): next size of the sequence (no-op when none is left),
\* then every entry reinserted in slot order with set.  size_index only ever
\* is compared with the length of the sequence, so it is kept at that length
\* once it has reached it.
bucket_grow(T, pos) ==
    LET b == Tab(T, pos)
        sizes == T.internal_table_sizes
        idx == b.size_index + 1
    IN  IF idx >= Len(sizes)
        THEN [t |-> SetTab(T, pos, [b EXCEPT !.size_index = Len(sizes)]), exc |-> NoExc]
        ELSE bucket_reinsert(
                 SetTab(T, pos, [b EXCEPT !.array = EmptyArray(sizes[idx + 1]),
                                          !.count = 0,
                                          !.size_index = idx]),
                 pos, bucket_items(b.array), 1)

bucket_reinsert(T, pos, items, i) ==
    IF i > Len(items) THEN [t |-> T, exc |-> NoExc]
    ELSE LET r == bucket_set(T, pos, items[i][1], items[i][2])
         IN  IF r.exc # NoExc THEN r
             ELSE bucket_reinsert(r.t, pos, items, i + 1)

\* the re-pack of ProbeBucket.delete: every entry from position to the next
\* empty slot is taken out and written where find(key, insert) puts it
RECURSIVE bucket_repack(_, _, _)
bucket_repack(T, pos, position) ==
    LET b == Tab(T, pos)
    IN  IF b.array[position + 1] = None
        THEN [t |-> T, exc |-> NoExc]
        ELSE LET item == b.array[position + 1]
                 T1 == SetTab(T, pos, [b EXCEPT !.array[position + 1] = None])
                 f == bucket_find(T1, pos, item[1], TRUE)
             IN  IF f.exc # NoExc
                 THEN [t |-> T1, exc |-> f.exc]
                 ELSE bucket_repack(
                          SetTab(T1, pos,
                                 [Tab(T1, pos) EXCEPT !.array[f.position + 1] = item]),
                          pos, (position + 1) % Len(b.array))

\* ProbeBucket.delete(key)
bucket_delete(T, pos, key) ==
    LET b == Tab(T, pos)
        f == bucket_find(T, pos, key, FALSE)
    IN  IF f.exc # NoExc
        THEN [t |-> T, exc |-> f.exc]
        ELSE bucket_repack(
                 SetTab(T, pos, [b EXCEPT !.array[f.position + 1] = None,
                                          !.count = @ - 1]),
                 pos, (f.position + 1) % Len(b.array))

(***************************************************************************)
(* DoubleKeyTable.                                                         *)
(***************************************************************************)
ProbeResult(T, exc, top_position, internal_position) ==
    [t |-> T, exc |-> exc, top_position |-> top_position,
     internal_position |-> internal_position]

\* the for loop of _linear_probe without the key1 comparison of line 161 on
\* an insert: an insert takes the first empty slot, whatever the slots
\* before it hold
RECURSIVE LinearProbeLoopNoMatch(_, _, _, _, _, _)
LinearProbeLoopNoMatch(T, key1, key2, is_insert, top_position, steps) ==
    IF steps = 0
    THEN ProbeResult(T, IF is_insert THEN "FullError" ELSE "KeyError", 0, 0)
    ELSE IF T.top_array[top_position + 1] = None
    THEN IF is_insert
         THEN LET T1 == [T EXCEPT !.top_array[top_position + 1] =
                                      <<key1, NewBucket(T, top_position)>>]
                  f == bucket_find(T1, top_position, key2, is_insert)
              IN  ProbeResult(T1, f.exc, top_position, f.position)
         ELSE ProbeResult(T, "KeyError", 0, 0)
    ELSE IF T.top_array[top_position + 1][1] = key1 /\ ~is_insert
    THEN LET f == bucket_find(T, top_position, key2, is_insert)
         IN  ProbeResult(T, f.exc, top_position, f.position)
    ELSE LinearProbeLoopNoMatch(T, key1, key2, is_insert,
                                (top_position + 1) % table_size(T), steps - 1)

\* the for loop of _linear_probe; steps counts the iterations left
RECURSIVE LinearProbeLoop(_, _, _, _, _, _)
LinearProbeLoop(T, key1, key2, is_insert, top_position, steps) ==
    IF steps = 0
    THEN ProbeResult(T, IF is_insert THEN "FullError" ELSE "KeyError", 0, 0)
    ELSE IF T.top_array[top_position + 1] = None
    THEN IF is_insert
         THEN LET T1 == [T EXCEPT !.top_array[top_position + 1] =
                                      <<key1, NewBucket(T, top_position)>>]
                  f == bucket_find(T1, top_position, key2, is_insert)
              IN  ProbeResult(T1, f.exc, top_position, f.position)
         ELSE ProbeResult(T, "KeyError", 0, 0)
    ELSE IF T.top_array[top_position + 1][1] = key1
    THEN LET f == bucket_find(T, top_position, key2, is_insert)
         IN  ProbeResult(T, f.exc, top_position, f.position)
    ELSE LinearProbeLoop(T, key1, key2, is_insert,
                         (top_position + 1) % table_size(T), steps - 1)

_linear_probe(T, key1, key2, is_insert) ==
    LinearProbeLoop(T, key1, key2, is_insert, hash1(T, key1), Len(T.top_array))

DKT__getitem__(T, key1, key2) ==
    LET p == _linear_probe(T, key1, key2, FALSE)
    IN  IF p.exc # NoExc
        THEN [exc |-> p.exc, value |-> 0]
        ELSE bucket_get(T, p.top_position, key2)

\* key in table: True, False, or the exception that is not a KeyError
DKT__contains__(T, key1, key2) ==
    LET g == DKT__getitem__(T, key1, key2)
    IN  IF g.exc = "KeyError" THEN [exc |-> NoExc, value |-> FALSE]
        ELSE IF g.exc # NoExc THEN [exc |-> g.exc, value |-> FALSE]
        ELSE [exc |-> NoExc, value |-> TRUE]

DKT__len__(T) == T.length

RECURSIVE DKT__setitem__(_, _, _, _)
RECURSIVE _rehash(_)
RECURSIVE RehashSpaces(_, _, _)
RECURSIVE RehashKeys(_, _, _, _)

\* lines 587-591: the counters, before the write
SetCounters(T, pos, key2) ==
    IF Tab(T, pos).count = 0
    THEN [t |-> [T EXCEPT !.length = @ + 1, !.top_length = @ + 1], exc |-> NoExc]
    ELSE LET c == bucket_contains(T, pos, key2)
         IN  IF c.exc # NoExc THEN [t |-> T, exc |-> c.exc]
             ELSE IF ~c.value THEN [t |-> [T EXCEPT !.length = @ + 1], exc |-> NoExc]
             ELSE [t |-> T, exc |-> NoExc]

\* lines 584-592 of __setitem__: the probe, the counters and the write, up to
\* the test of line 594
SetWrite(T, key1, key2, data) ==
    LET p == _linear_probe(T, key1, key2, TRUE)
    IN  IF p.exc # NoExc THEN [t |-> p.t, exc |-> p.exc]
        ELSE LET c == SetCounters(p.t, p.top_position, key2)
             IN  IF c.exc # NoExc THEN c
                 ELSE bucket_set(c.t, p.top_position, key2, data)

\* __setitem__ with the threshold of line 594 taken as the whole capacity:
\* if self.top_length > self.table_size
DKT__setitem__NoHalf(T, key1, key2, data) ==
    LET p == _linear_probe(T, key1, key2, TRUE)
    IN  IF p.exc # NoExc THEN [t |-> p.t, exc |-> p.exc]
        ELSE LET c == SetCounters(p.t, p.top_position, key2)
             IN  IF c.exc # NoExc THEN c
                 ELSE LET w == bucket_set(c.t, p.top_position, key2, data)
                      IN  IF w.exc # NoExc THEN w
                          ELSE IF w.t.top_length > table_size(w.t)
                          THEN _rehash(w.t)
                          ELSE w

DKT__setitem__(T, key1, key2, data) ==
    LET p == _linear_probe(T, key1, key2, TRUE)
    IN  IF p.exc # NoExc THEN [t |-> p.t, exc |-> p.exc]
        ELSE LET c == SetCounters(p.t, p.top_position, key2)
             IN  IF c.exc # NoExc THEN c
                 ELSE LET w == bucket_set(c.t, p.top_position, key2, data)
                      IN  IF w.exc # NoExc THEN w
                          ELSE IF 2 * w.t.top_length > table_size(w.t)
                          THEN _rehash(w.t)
                          ELSE w

\* _rehash with the new outer array sized from internal_table_sizes
\* (line 683: ArrayR(self.internal_table_sizes[self.top_table_sizes_index]))
_rehashInternalSizes(T) ==
    LET idx == T.top_table_sizes_index + 1
    IN  IF idx >= Len(T.top_table_sizes)
        THEN [t |-> [T EXCEPT !.top_table_sizes_index = Len(T.top_table_sizes)],
              exc |-> NoExc]
        ELSE IF idx >= Len(T.internal_table_sizes)
        THEN [t |-> [T EXCEPT !.top_table_sizes_index = idx], exc |-> "IndexError"]
        ELSE RehashSpaces([T EXCEPT !.top_table_sizes_index = idx,
                                    !.top_array = EmptyArray(T.internal_table_sizes[idx + 1])],
                          T.top_array, 0)

\* _rehash without the test of lines 677-678: with no size left, line 683
\* reads past the end of top_table_sizes
_rehashNoGuard(T) ==
    LET idx == T.top_table_sizes_index + 1
    IN  IF idx >= Len(T.top_table_sizes)
        THEN [t |-> [T EXCEPT !.top_table_sizes_index = Len(T.top_table_sizes)],
              exc |-> "IndexError"]
        ELSE RehashSpaces([T EXCEPT !.top_table_sizes_index = idx,
                                    !.top_array = EmptyArray(T.top_table_sizes[idx + 1])],
                          T.top_array, 0)

\* top_table_sizes_index only ever is compared with the length of the
\* sequence, so it is kept at that length once it has reached it
_rehash(T) ==
    LET idx == T.top_table_sizes_index + 1
    IN  IF idx >= Len(T.top_table_sizes)
        THEN [t |-> [T EXCEPT !.top_table_sizes_index = Len(T.top_table_sizes)],
              exc |-> NoExc]
        ELSE RehashSpaces([T EXCEPT !.top_table_sizes_index = idx,
                                    !.top_array = EmptyArray(T.top_table_sizes[idx + 1])],
                          T.top_array, 0)

\* _rehash with the loop over the old outer array starting at index 1: the
\* entry at index 0 is not re-inserted
RECURSIVE RehashSpacesFromOne(_, _, _)
RehashSpacesFromOne(T, current_array, space) ==
    IF space = 0 THEN RehashSpacesFromOne(T, current_array, 1)
    ELSE IF space >= Len(current_array) THEN [t |-> T, exc |-> NoExc]
    ELSE IF current_array[space + 1] = None
    THEN RehashSpacesFromOne(T, current_array, space + 1)
    ELSE LET r == RehashKeys([T EXCEPT !.top_length = @ - 1],
                             current_array[space + 1][1],
                             bucket_items(current_array[space + 1][2].array), 1)
         IN  IF r.exc # NoExc THEN r
             ELSE RehashSpacesFromOne(r.t, current_array, space + 1)

\* for space in range(len(current_array))
RehashSpaces(T, current_array, space) ==
    IF space >= Len(current_array) THEN [t |-> T, exc |-> NoExc]
    ELSE IF current_array[space + 1] = None
    THEN RehashSpaces(T, current_array, space + 1)
    ELSE LET r == RehashKeys([T EXCEPT !.top_length = @ - 1],
                             current_array[space + 1][1],
                             bucket_items(current_array[space + 1][2].array), 1)
         IN  IF r.exc # NoExc THEN r
             ELSE RehashSpaces(r.t, current_array, space + 1)

\* for key2 in table.keys(): self[(key1, key2)] = vals[vals_index]
RehashKeys(T, key1, items, i) ==
    IF i > Len(items) THEN [t |-> T, exc |-> NoExc]
    ELSE LET r == DKT__setitem__(T, key1, items[i][1], items[i][2])
         IN  IF r.exc # NoExc THEN r
             ELSE RehashKeys([r.t EXCEPT !.length = @ - 1], key1, items, i + 1)

\* the re-pack of __delitem__ without its while loop (lines 638-643): the
\* entries after the cleared outer slot stay where they are
DelRepackNone(T, top_position) == [t |-> T, exc |-> NoExc]

\* the while loop of __delitem__: reinsert the outer entries up to the next
\* empty slot; the bucket _linear_probe makes for key1 is replaced by the
\* entry's own bucket
RECURSIVE DelRepack(_, _)
DelRepack(T, top_position) ==
    IF T.top_array[top_position + 1] = None
    THEN [t |-> T, exc |-> NoExc]
    ELSE LET entry == T.top_array[top_position + 1]
             T1 == [T EXCEPT !.top_array[top_position + 1] = None]
             p == _linear_probe(T1, entry[1], <<32>>, TRUE)
         IN  IF p.exc # NoExc THEN [t |-> p.t, exc |-> p.exc]
             ELSE DelRepack([p.t EXCEPT !.top_array[p.top_position + 1] = entry],
                            (top_position + 1) % table_size(T))

DKT__delitem__(T, key1, key2) ==
    LET p == _linear_probe(T, key1, key2, FALSE)
    IN  IF p.exc # NoExc THEN [t |-> T, exc |-> p.exc]
        ELSE LET d == bucket_delete(T, p.top_position, key2)
             IN  IF d.exc # NoExc THEN d
                 ELSE LET T1 == [d.t EXCEPT !.length = @ - 1]
                      IN  IF Tab(T1, p.top_position).count = 0
                          THEN DelRepack([T1 EXCEPT !.top_array[p.top_position + 1] = None,
                                                    !.top_length = @ - 1],
                                         (p.top_position + 1) % table_size(T1))
                          ELSE [t |-> T1, exc |-> NoExc]

(***************************************************************************)
(* Enumeration of the DoubleKeyTable.  The argument key is None for the    *)
(* call without a filter.  keys returns [returns, list]: returns is "list" *)
(* when the call returns a list and "None" when it falls off its loop.     *)
(***************************************************************************)
\* ProbeBucket.keys(): the K2s of the entries in slot order
bucket_keys(b) ==
    LET items == bucket_items(b.array)
    IN  [i \in 1..Len(items) |-> items[i][1]]

\* ProbeBucket.values(): the values of the entries in slot order
bucket_values(b) ==
    LET items == bucket_items(b.array)
    IN  [i \in 1..Len(items) |-> items[i][2]]

\* lines 331-333: the K1 of every occupied outer slot from space on
RECURSIVE TopKeysFrom(_, _)
TopKeysFrom(T, space) ==
    IF space >= Len(T.top_array) THEN <<>>
    ELSE IF T.top_array[space + 1] # None
    THEN <<T.top_array[space + 1][1]>> \o TopKeysFrom(T, space + 1)
    ELSE TopKeysFrom(T, space + 1)

\* keys(key) without the comparison of line 338 with key: the keys of the
\* first bucket of the outer array
RECURSIVE BucketKeysFromFirst(_, _, _)
BucketKeysFromFirst(T, key, space) ==
    IF space >= Len(T.top_array) THEN [returns |-> "None", list |-> <<>>]
    ELSE IF T.top_array[space + 1] # None
    THEN [returns |-> "list", list |-> bucket_keys(Tab(T, space))]
    ELSE BucketKeysFromFirst(T, key, space + 1)

\* lines 337-340: the keys of the first bucket whose K1 is key; the loop
\* that finds none ends the function without a return statement
RECURSIVE BucketKeysFrom(_, _, _)
BucketKeysFrom(T, key, space) ==
    IF space >= Len(T.top_array) THEN [returns |-> "None", list |-> <<>>]
    ELSE IF T.top_array[space + 1] # None /\ T.top_array[space + 1][1] = key
    THEN [returns |-> "list", list |-> bucket_keys(Tab(T, space))]
    ELSE BucketKeysFrom(T, key, space + 1)

DKT_keys(T, key) ==
    IF key = None
    THEN [returns |-> "list", list |-> TopKeysFrom(T, 0)]
    ELSE BucketKeysFrom(T, key, 0)

\* lines 504-506: the values of every bucket from space on
RECURSIVE AllValuesFrom(_, _)
AllValuesFrom(T, space) ==
    IF space >= Len(T.top_array) THEN <<>>
    ELSE IF T.top_array[space + 1] # None
    THEN bucket_values(Tab(T, space)) \o AllValuesFrom(T, space + 1)
    ELSE AllValuesFrom(T, space + 1)

\* lines 509-512: values is assigned at every bucket whose K1 is key and
\* returned after the loop
RECURSIVE BucketValuesFrom(_, _, _, _)
BucketValuesFrom(T, key, space, values) ==
    IF space >= Len(T.top_array) THEN values
    ELSE IF T.top_array[space + 1] # None /\ T.top_array[space + 1][1] = key
    THEN BucketValuesFrom(T, key, space + 1, bucket_values(Tab(T, space)))
    ELSE BucketValuesFrom(T, key, space + 1, values)

DKT_values(T, key) ==
    IF key = None
    THEN AllValuesFrom(T, 0)
    ELSE BucketValuesFrom(T, key, 0, <<>>)

(***************************************************************************)
(* The lazy iterators of the DoubleKeyTable.  An iterator is the record of *)
(* its fields; position is None or <<space>>.  __next__ gives the iterator *)
(* after the call with the value returned or the exception raised.         *)
(***************************************************************************)
\* array[index] of an ArrayR: an index past the end raises IndexError, the
\* index None raises TypeError
ArrayGet(array, index) ==
    IF index = None THEN [exc |-> "TypeError", value |-> None]
    ELSE IF index[1] >= Len(array) THEN [exc |-> "IndexError", value |-> None]
    ELSE [exc |-> NoExc, value |-> array[index[1] + 1]]

NextResult(it, exc, value) == [it |-> it, exc |-> exc, value |-> value]

\* lines 278-282 and 449-453: the for loop that looks for the outer slot of
\* self.key; it compares the whole slot with the key
RECURSIVE FindPosition(_, _, _, _)
FindPosition(T, key, space, position) ==
    IF space >= Len(T.top_array) THEN [exc |-> NoExc, position |-> position]
    ELSE IF T.top_array[space + 1] = key
    THEN FindPosition(T, key, space + 1, <<space>>)
    ELSE IF space = Len(T.top_array)
    THEN [exc |-> "StopIteration", position |-> position]
    ELSE FindPosition(T, key, space + 1, position)

DoubleKeyKeyIterator(key) == [key |-> key, index |-> 0, position |-> None]

\* lines 267-273: while True of the iterator without a filter
RECURSIVE KeyNextAll(_, _)
KeyNextAll(T, it) ==
    LET slot == ArrayGet(T.top_array, <<it.index>>)
    IN  IF it.index <= Len(T.top_array) /\ slot.exc # NoExc
        THEN NextResult(it, slot.exc, None)
        ELSE IF it.index <= Len(T.top_array) /\ slot.value # None
        THEN NextResult(it, NoExc, slot.value[1])
        ELSE IF it.index < Len(T.top_array)
        THEN KeyNextAll(T, [it EXCEPT !.index = @ + 1])
        ELSE NextResult(it, "StopIteration", None)

\* lines 284-292: while True of the iterator with a filter
RECURSIVE KeyNextOf(_, _)
KeyNextOf(T, it) ==
    LET entry == ArrayGet(T.top_array, it.position)
    IN  IF entry.exc # NoExc THEN NextResult(it, entry.exc, None)
        ELSE IF entry.value = None THEN NextResult(it, "TypeError", None)
        ELSE LET array == entry.value[2].array
                 slot == ArrayGet(array, <<it.index>>)
             IN  IF it.index <= Len(array) /\ slot.exc # NoExc
                 THEN NextResult(it, slot.exc, None)
                 ELSE IF it.index <= Len(array) /\ slot.value # None
                 THEN NextResult(it, NoExc, slot.value[1])
                 ELSE IF it.index < Len(array)
                 THEN KeyNextOf(T, [it EXCEPT !.index = @ + 1])
                 ELSE NextResult(it, "StopIteration", None)

\* DoubleKeyKeyIterator.__next__
KeyIterator__next__(T, it) ==
    IF it.key = None THEN KeyNextAll(T, it)
    ELSE IF it.position = None
    THEN LET f == FindPosition(T, it.key, 0, it.position)
         IN  IF f.exc # NoExc THEN NextResult(it, f.exc, None)
             ELSE KeyNextOf(T, [it EXCEPT !.position = f.position])
    ELSE KeyNextOf(T, it)

DoubleKeyValuesIterator(key) ==
    [key |-> key, index |-> 0, in_index |-> 0, position |-> None]

\* lines 433-444: while True of the iterator without a filter
RECURSIVE ValuesNextAll(_, _)
ValuesNextAll(T, it) ==
    LET slot == ArrayGet(T.top_array, <<it.index>>)
    IN  IF it.index <= Len(T.top_array) /\ slot.exc # NoExc
        THEN NextResult(it, slot.exc, None)
        ELSE IF it.index <= Len(T.top_array) /\ slot.value # None
        THEN LET array == slot.value[2].array
                 inner == ArrayGet(array, <<it.in_index>>)
             IN  IF it.in_index <= Len(array) /\ inner.exc # NoExc
                 THEN NextResult(it, inner.exc, None)
                 ELSE IF it.in_index <= Len(array) /\ inner.value # None
                 THEN NextResult(it, NoExc, inner.value[2])
                 ELSE ValuesNextAll(T, [it EXCEPT !.in_index = @ + 1])
        ELSE IF it.index < Len(T.top_array)
        THEN ValuesNextAll(T, [it EXCEPT !.index = @ + 1, !.in_index = 0])
        ELSE NextResult(it, "StopIteration", None)

\* lines 455-462: while True of the iterator with a filter
RECURSIVE ValuesNextOf(_, _)
ValuesNextOf(T, it) ==
    LET entry == ArrayGet(T.top_array, it.position)
    IN  IF entry.exc # NoExc THEN NextResult(it, entry.exc, None)
        ELSE IF entry.value = None THEN NextResult(it, "TypeError", None)
        ELSE LET array == entry.value[2].array
                 slot == ArrayGet(array, <<it.index>>)
             IN  IF it.index <= Len(array) /\ slot.exc # NoExc
                 THEN NextResult(it, slot.exc, None)
                 ELSE IF it.index <= Len(array) /\ slot.value # None
                 THEN NextResult(it, NoExc, slot.value[2])
                 ELSE IF it.index < Len(array)
                 THEN ValuesNextOf(T, [it EXCEPT !.index = @ + 1])
                 ELSE NextResult(it, "StopIteration", None)

\* DoubleKeyValuesIterator.__next__
ValuesIterator__next__(T, it) ==
    IF it.key = None THEN ValuesNextAll(T, it)
    ELSE IF it.position = None
    THEN LET f == FindPosition(T, it.key, 0, it.position)
         IN  IF f.exc # NoExc THEN NextResult(it, f.exc, None)
             ELSE ValuesNextOf(T, [it EXCEPT !.position = f.position])
    ELSE ValuesNextOf(T, it)

\* a caller that calls next(it) until it raises, at most calls times: the
\* values returned, and the exception that ended the calls ("none" when
\* every one of the calls returned a value)
RECURSIVE DrainKeys(_, _, _)
DrainKeys(T, it, calls) ==
    IF calls = 0 THEN [list |-> <<>>, exc |-> NoExc]
    ELSE LET r == KeyIterator__next__(T, it)
         IN  IF r.exc # NoExc THEN [list |-> <<>>, exc |-> r.exc]
             ELSE LET rest == DrainKeys(T, r.it, calls - 1)
                  IN  [list |-> <<r.value>> \o rest.list, exc |-> rest.exc]

RECURSIVE DrainValues(_, _, _)
DrainValues(T, it, calls) ==
    IF calls = 0 THEN [list |-> <<>>, exc |-> NoExc]
    ELSE LET r == ValuesIterator__next__(T, it)
         IN  IF r.exc # NoExc THEN [list |-> <<>>, exc |-> r.exc]
             ELSE LET rest == DrainValues(T, r.it, calls - 1)
                  IN  [list |-> <<r.value>> \o rest.list, exc |-> rest.exc]

\* iter_keys(key) and iter_values(key)
iter_keys(key) == DoubleKeyKeyIterator(key)

iter_values(key) == DoubleKeyValuesIterator(key)

(***************************************************************************)
(* InfiniteHashTable.  A table is [level, table]; a slot of table is None, *)
(* a Nodes object [key, value] or a child table.                           *)
(***************************************************************************)
TABLE_SIZE == 27

Nodes(key, value) == [key |-> key, value |-> value]

InfiniteHashTable(level) == [level |-> level, table |-> EmptyArray(TABLE_SIZE)]

\* isinstance(element, InfiniteHashTable)
IsTable(element) == "level" \in DOMAIN element

IHT_hash(t, key) ==
    IF t.level < Len(key)
    THEN key[t.level + 1] % (TABLE_SIZE - 1)
    ELSE TABLE_SIZE - 1

RECURSIVE IHT__getitem__(_, _)
IHT__getitem__(t, key) ==
    LET element == t.table[IHT_hash(t, key) + 1]
    IN  IF element = None
        THEN [exc |-> "KeyError", value |-> 0]
        ELSE IF IsTable(element)
        THEN IHT__getitem__(element, key)
        ELSE [exc |-> NoExc, value |-> element.value]

IHT__contains__(t, key) == IHT__getitem__(t, key).exc # "KeyError"

\* __setitem__ without the second insert into the new child table (line 80):
\* the colliding key is not stored
RECURSIVE IHT__setitem__OldOnly(_, _, _, _)
IHT__setitem__OldOnly(t, key, value, depth) ==
    IF depth > RecursionLimit
    THEN [t |-> t, exc |-> "RecursionError"]
    ELSE LET h == IHT_hash(t, key)
             table == t.table[h + 1]
         IN  IF table = None
             THEN [t |-> [t EXCEPT !.table[h + 1] = Nodes(key, value)], exc |-> NoExc]
             ELSE IF IsTable(table)
             THEN LET r == IHT__setitem__OldOnly(table, key, value, depth + 1)
                  IN  IF r.exc # NoExc THEN [t |-> t, exc |-> r.exc]
                      ELSE [t |-> [t EXCEPT !.table[h + 1] = r.t], exc |-> NoExc]
             ELSE LET oldValue == table
                      r1 == IHT__setitem__OldOnly(InfiniteHashTable(t.level + 1),
                                                  oldValue.key, oldValue.value, depth + 1)
                  IN  IF r1.exc # NoExc THEN [t |-> t, exc |-> r1.exc]
                      ELSE [t |-> [t EXCEPT !.table[h + 1] = r1.t], exc |-> NoExc]

\* depth is the number of nested __setitem__ calls; the source's recursion
\* ends only at an empty slot, so Python ends it with RecursionError when
\* the two keys never part.  Nothing is assigned on the way back from a
\* raise: the table is as it was.
RECURSIVE IHT__setitem__(_, _, _, _)
IHT__setitem__(t, key, value, depth) ==
    IF depth > RecursionLimit
    THEN [t |-> t, exc |-> "RecursionError"]
    ELSE LET h == IHT_hash(t, key)
             table == t.table[h + 1]
         IN  IF table = None
             THEN [t |-> [t EXCEPT !.table[h + 1] = Nodes(key, value)], exc |-> NoExc]
             ELSE IF IsTable(table)
             THEN LET r == IHT__setitem__(table, key, value, depth + 1)
                  IN  IF r.exc # NoExc THEN [t |-> t, exc |-> r.exc]
                      ELSE [t |-> [t EXCEPT !.table[h + 1] = r.t], exc |-> NoExc]
             ELSE LET oldValue == table
                      r1 == IHT__setitem__(InfiniteHashTable(t.level + 1),
                                           oldValue.key, oldValue.value, depth + 1)
                      r2 == IHT__setitem__(r1.t, key, value, depth + 1)
                  IN  IF r1.exc # NoExc THEN [t |-> t, exc |-> r1.exc]
                      ELSE IF r2.exc # NoExc THEN [t |-> t, exc |-> r2.exc]
                      ELSE [t |-> [t EXCEPT !.table[h + 1] = r2.t], exc |-> NoExc]

RECURSIVE IHT__len__(_)
RECURSIVE LenFrom(_, _)
\* the loop of __len__ from index i on
LenFrom(t, i) ==
    IF i >= TABLE_SIZE THEN 0
    ELSE (IF t.table[i + 1] = None THEN 0
          ELSE IF IsTable(t.table[i + 1]) THEN IHT__len__(t.table[i + 1])
          ELSE 1) + LenFrom(t, i + 1)

IHT__len__(t) == LenFrom(t, 0)

\* the last slot of the table that is not None
RECURSIVE LastObjectFrom(_, _, _)
LastObjectFrom(t, i, object) ==
    IF i >= TABLE_SIZE THEN object
    ELSE LastObjectFrom(t, i + 1, IF t.table[i + 1] # None THEN t.table[i + 1] ELSE object)

lookforlastobject(t) == LastObjectFrom(t, 0, None)

\* __delitem__ without the elif branch of lines 110-112: a child left with
\* one leaf stays in its parent's slot
RECURSIVE IHT__delitem__NoCollapse(_, _)
IHT__delitem__NoCollapse(t, key) ==
    LET h == IHT_hash(t, key)
        element == t.table[h + 1]
    IN  IF element = None
        THEN [t |-> t, exc |-> "KeyError"]
        ELSE IF IsTable(element)
        THEN LET r == IHT__delitem__NoCollapse(element, key)
             IN  IF r.exc # NoExc THEN [t |-> t, exc |-> r.exc]
                 ELSE IF IHT__len__(r.t) = 0
                 THEN [t |-> [t EXCEPT !.table[h + 1] = None], exc |-> NoExc]
                 ELSE [t |-> [t EXCEPT !.table[h + 1] = r.t], exc |-> NoExc]
        ELSE [t |-> [t EXCEPT !.table[h + 1] = None], exc |-> NoExc]

RECURSIVE IHT__delitem__(_, _)
IHT__delitem__(t, key) ==
    LET h == IHT_hash(t, key)
        element == t.table[h + 1]
    IN  IF element = None
        THEN [t |-> t, exc |-> "KeyError"]
        ELSE IF IsTable(element)
        THEN LET r == IHT__delitem__(element, key)
             IN  IF r.exc # NoExc THEN [t |-> t, exc |-> r.exc]
                 ELSE IF IHT__len__(r.t) = 0
                 THEN [t |-> [t EXCEPT !.table[h + 1] = None], exc |-> NoExc]
                 ELSE IF IHT__len__(r.t) = 1
                 THEN [t |-> [t EXCEPT !.table[h + 1] = lookforlastobject(r.t)],
                       exc |-> NoExc]
                 ELSE [t |-> [t EXCEPT !.table[h + 1] = r.t], exc |-> NoExc]
        ELSE [t |-> [t EXCEPT !.table[h + 1] = None], exc |-> NoExc]

\* the while loop of get_location without the append of line 173: only the
\* root's index is recorded
RECURSIVE LocationFromRootOnly(_, _, _)
LocationFromRootOnly(table, key, positions) ==
    IF table # None /\ IsTable(table)
    THEN LocationFromRootOnly(table.table[IHT_hash(table, key) + 1], key, positions)
    ELSE IF table = None
    THEN [exc |-> "KeyError", value |-> <<>>]
    ELSE IF table.key # key
    THEN [exc |-> "KeyError", value |-> <<>>]
    ELSE [exc |-> NoExc, value |-> positions]

\* the while loop of get_location and the tests after it: table is the slot
\* the walk has reached, positions the indices chosen so far
RECURSIVE LocationFrom(_, _, _)
LocationFrom(table, key, positions) ==
    IF table # None /\ IsTable(table)
    THEN LocationFrom(table.table[IHT_hash(table, key) + 1], key,
                      Append(positions, IHT_hash(table, key)))
    ELSE IF table = None
    THEN [exc |-> "KeyError", value |-> <<>>]
    ELSE IF table.key # key
    THEN [exc |-> "KeyError", value |-> <<>>]
    ELSE [exc |-> NoExc, value |-> positions]

get_location(t, key) ==
    LocationFrom(t.table[IHT_hash(t, key) + 1], key, <<IHT_hash(t, key)>>)

(***************************************************************************)
(* Trail.  A Trail is [store]; a store is None, a TrailSeries [mountain,   *)
(* following] or a TrailSplit [path_top, path_bottom, path_follow], the    *)
(* three paths being Trails.  A Python list is a sequence; an element of a *)
(* list that findpath builds is a string [str] or a nested list [list].    *)
(***************************************************************************)
Mountain(name, difficulty_level, len) ==
    [name |-> name, difficulty_level |-> difficulty_level, length |-> len]

Trail(st) == [store |-> st]

TrailSeries(mountain, following) == [mountain |-> mountain, following |-> following]

TrailSplit(path_top, path_bottom, path_follow) ==
    [path_top |-> path_top, path_bottom |-> path_bottom, path_follow |-> path_follow]

\* isinstance(current_trail, TrailSeries), isinstance(current_trail, TrailSplit)
IsSeries(st) == "mountain" \in DOMAIN st

IsSplit(st) == "path_top" \in DOMAIN st

Str(name) == [str |-> name]

List(items) == [list |-> items]

\* isinstance(item, list)
IsList(item) == "list" \in DOMAIN item

\* Trail.add_mountain_before
add_mountain_before(st, mountain) == TrailSeries(mountain, Trail(st))

\* Trail.add_empty_branch_before
add_empty_branch_before(st) == TrailSplit(Trail(None), Trail(None), Trail(st))

RECURSIVE findpath(_)
\* lines 205-213: what the top branch appends to path
FindTop(current_trail) ==
    IF current_trail.path_top.store = None
    THEN [exc |-> NoExc, value |-> <<>>]
    ELSE LET top == findpath(current_trail.path_top.store)
         IN  IF top.exc # NoExc THEN top
             ELSE IF current_trail.path_follow.store = None
             THEN [exc |-> NoExc, value |-> <<List(top.value)>>]
             ELSE IF top.value = <<>>
             THEN [exc |-> "IndexError", value |-> <<>>]
             ELSE LET follow == findpath(current_trail.path_follow.store)
                  IN  IF follow.exc # NoExc THEN follow
                      ELSE IF IsList(top.value[1])
                      THEN IF \E i \in 1..Len(top.value) : ~IsList(top.value[i])
                           THEN [exc |-> "AttributeError", value |-> <<>>]
                           ELSE [exc |-> NoExc,
                                 value |-> <<List([i \in 1..Len(top.value) |->
                                                List(top.value[i].list \o follow.value)])>>]
                      ELSE [exc |-> NoExc, value |-> <<List(top.value \o follow.value)>>]

\* lines 214-218: what the bottom branch appends to path
FindBottom(current_trail) ==
    IF current_trail.path_bottom.store = None
    THEN [exc |-> NoExc, value |-> <<>>]
    ELSE LET bot == findpath(current_trail.path_bottom.store)
         IN  IF bot.exc # NoExc THEN bot
             ELSE IF current_trail.path_follow.store = None
             THEN [exc |-> NoExc, value |-> <<List(bot.value)>>]
             ELSE LET follow == findpath(current_trail.path_follow.store)
                  IN  IF follow.exc # NoExc THEN follow
                      ELSE [exc |-> NoExc, value |-> <<List(bot.value \o follow.value)>>]

findpath(current_trail) ==
    IF current_trail # None /\ IsSeries(current_trail)
    THEN IF current_trail.following.store # None
         THEN LET rest == findpath(current_trail.following.store)
              IN  IF rest.exc # NoExc THEN rest
                  ELSE [exc |-> NoExc,
                        value |-> <<Str(current_trail.mountain.name)>> \o rest.value]
         ELSE [exc |-> NoExc, value |-> <<Str(current_trail.mountain.name)>>]
    ELSE IF current_trail # None /\ IsSplit(current_trail)
    THEN LET top == FindTop(current_trail)
             bot == FindBottom(current_trail)
         IN  IF top.exc # NoExc THEN top
             ELSE IF bot.exc # NoExc THEN bot
             ELSE [exc |-> NoExc, value |-> top.value \o bot.value]
    ELSE [exc |-> "AttributeError", value |-> <<>>]

\* len(sub_list) of an element of paths
ItemLen(item) == IF IsList(item) THEN Len(item.list) ELSE Len(item.str)

RECURSIVE FilterLen(_, _)
\* [sub_list for sub_list in paths if len(sub_list) == k]
FilterLen(paths, k) ==
    IF paths = <<>> THEN <<>>
    ELSE (IF ItemLen(Head(paths)) = k THEN <<Head(paths)>> ELSE <<>>)
         \o FilterLen(Tail(paths), k)

\* line 189 computes result, line 190 returns paths
length_k_paths(st, k) ==
    LET paths == findpath(st)
        result == FilterLen(paths.value, k)
    IN  IF paths.exc # NoExc THEN paths
        ELSE [exc |-> NoExc, value |-> paths.value]

(***************************************************************************)
(* Trail.follow_path.  LinkedStack (data_structures/linked_stack.py) and   *)
(* WalkerPersonality (personality.py) are not part of src/: the stack is   *)
(* modelled as a sequence with its top last, the personality as the list   *)
(* of mountains add_mountain has been given and the answers select_branch  *)
(* still is to give, one per call.                                         *)
(***************************************************************************)
LinkedStack == <<>>

push(stack, item) == Append(stack, item)

\* pop() as [item, stack]
pop(stack) == [item |-> stack[Len(stack)], stack |-> SubSeq(stack, 1, Len(stack) - 1)]

WalkerPersonality(answers) == [mountains |-> <<>>, answers |-> answers]

add_mountain(personality, mountain) ==
    [personality EXCEPT !.mountains = Append(@, mountain)]

\* select_branch(top_branch, bottom_branch) as [value, personality]: True
\* selects the top branch; a personality out of answers gives False
select_branch(personality) ==
    IF personality.answers = <<>>
    THEN [value |-> FALSE, personality |-> personality]
    ELSE [value |-> Head(personality.answers),
          personality |-> [personality EXCEPT !.answers = Tail(@)]]

\* the while loop of follow_path without lines 129-131: the walk returns at
\* the end of the first branch it has taken, and no path_follow is walked
RECURSIVE FollowLoopNoFollow(_, _, _)
FollowLoopNoFollow(current_trail, trail_splits, personality) ==
    LET series == IsSeries(current_trail)
        personality1 == IF series THEN add_mountain(personality, current_trail.mountain)
                        ELSE personality
        trail1 == IF series THEN current_trail.following.store ELSE current_trail
        answer == select_branch(personality1)
    IN  IF trail1 = None THEN personality1
        ELSE IF ~IsSplit(trail1)
        THEN FollowLoopNoFollow(trail1, trail_splits, personality1)
        ELSE IF answer.value
        THEN FollowLoopNoFollow(trail1.path_top.store, push(trail_splits, trail1),
                                answer.personality)
        ELSE FollowLoopNoFollow(trail1.path_bottom.store, push(trail_splits, trail1),
                                answer.personality)

\* one round of the while loop of follow_path (lines 121-142) and the rounds
\* after it; returns the personality at the return of line 133
RECURSIVE FollowLoop(_, _, _)
FollowLoop(current_trail, trail_splits, personality) ==
    LET \* lines 123-125: a TrailSeries
        series == IsSeries(current_trail)
        personality1 == IF series THEN add_mountain(personality, current_trail.mountain)
                        ELSE personality
        trail1 == IF series THEN current_trail.following.store ELSE current_trail
    IN  IF trail1 = None /\ Len(trail_splits) = 0
        THEN personality1
        ELSE LET \* lines 128-131: the end of a branch
                 popped == IF trail1 = None THEN pop(trail_splits).item ELSE None
                 splits2 == IF trail1 = None THEN pop(trail_splits).stack
                            ELSE trail_splits
                 trail2 == IF trail1 # None THEN trail1
                           ELSE IF popped # None THEN popped.path_follow.store
                           ELSE popped
                 \* lines 136-142: a TrailSplit
                 split == IsSplit(trail2)
                 answer == select_branch(personality1)
             IN  IF ~split THEN FollowLoop(trail2, splits2, personality1)
                 ELSE IF answer.value
                 THEN FollowLoop(trail2.path_top.store, push(splits2, trail2),
                                 answer.personality)
                 ELSE FollowLoop(trail2.path_bottom.store, push(splits2, trail2),
                                 answer.personality)

follow_path(st, personality) == FollowLoop(st, LinkedStack, personality)

(***************************************************************************)
(* MountainOrganiser.  mountains is None or the list of (length,           *)
(* difficulty_level, name) tuples, lengths None or the list of lengths.    *)
(* A returned rank is <<pos>>, a returned None is None.  mergesort, merge  *)
(* and _binary_search_aux are imported from algorithms/, which is not part *)
(* of src/: they are modelled as the merge sort and the bisection their    *)
(* names and call sites give.                                              *)
(***************************************************************************)
RECURSIVE StrLess(_, _)
\* a < b on Python strings
StrLess(a, b) ==
    IF b = <<>> THEN FALSE
    ELSE IF a = <<>> THEN TRUE
    ELSE IF Head(a) # Head(b) THEN Head(a) < Head(b)
    ELSE StrLess(Tail(a), Tail(b))

\* a <= b on (length, difficulty_level, name) tuples
TupleLeq(a, b) ==
    IF a[1] # b[1] THEN a[1] < b[1]
    ELSE IF a[2] # b[2] THEN a[2] < b[2]
    ELSE a[3] = b[3] \/ StrLess(a[3], b[3])

\* a <= b on the elements of a list: kind is the Python type of the elements
Leq(kind, a, b) == IF kind = "int" THEN a <= b ELSE TupleLeq(a, b)

RECURSIVE merge(_, _, _)
merge(l1, l2, kind) ==
    IF l1 = <<>> THEN l2
    ELSE IF l2 = <<>> THEN l1
    ELSE IF Leq(kind, Head(l1), Head(l2))
    THEN <<Head(l1)>> \o merge(Tail(l1), l2, kind)
    ELSE <<Head(l2)>> \o merge(l1, Tail(l2), kind)

RECURSIVE mergesort(_, _)
mergesort(l, kind) ==
    IF Len(l) <= 1 THEN l
    ELSE LET break_index == (Len(l) + 1) \div 2
         IN  merge(mergesort(SubSeq(l, 1, break_index), kind),
                   mergesort(SubSeq(l, break_index + 1, Len(l)), kind), kind)

RECURSIVE _binary_search_aux(_, _, _, _)
\* the index of item in l[lo:hi], or the index where it would be inserted
_binary_search_aux(l, item, lo, hi) ==
    IF lo = hi THEN lo
    ELSE LET mid == (hi + lo) \div 2
         IN  IF l[mid + 1] > item THEN _binary_search_aux(l, item, lo, mid)
             ELSE IF l[mid + 1] < item THEN _binary_search_aux(l, item, mid + 1, hi)
             ELSE mid

Organiser == [mountains |-> mountains, lengths |-> lengths]

\* a rank that Python takes as true: not None and not 0
Truthy(rank) == rank # None /\ rank[1] # 0

RECURSIVE search(_, _, _, _, _, _)
search(o, list, val, min, max, mountain) ==
    LET pos == _binary_search_aux(list, val, min, max)
    IN  IF pos >= Len(o.mountains)
        THEN [exc |-> "IndexError", value |-> None]
        ELSE IF /\ o.mountains[pos + 1][3] = mountain.name
                /\ o.mountains[pos + 1][2] = mountain.difficulty_level
        THEN [exc |-> NoExc, value |-> <<pos>>]
        ELSE IF min <= pos - 1 /\ max >= pos + 1
        THEN LET left == search(o, list, val, min, pos - 1, mountain)
             IN  IF left.exc # NoExc \/ Truthy(left.value) THEN left
                 ELSE search(o, list, val, pos + 1, max, mountain)
        ELSE IF min <= pos - 1 /\ list[pos] = val
        THEN search(o, list, val, min, pos - 1, mountain)
        ELSE IF max >= pos + 1
        THEN IF pos + 1 >= Len(list)
             THEN [exc |-> "IndexError", value |-> None]
             ELSE IF list[pos + 2] = val
             THEN search(o, list, val, pos + 1, max, mountain)
             ELSE [exc |-> NoExc, value |-> None]
        ELSE [exc |-> NoExc, value |-> None]

cur_position(o, mountain) ==
    IF o.lengths = None
    THEN [exc |-> "TypeError", value |-> None]
    ELSE LET rank == search(o, o.lengths, mountain.length, 0, Len(o.lengths), mountain)
         IN  IF rank.exc # NoExc THEN rank
             ELSE IF rank.value = None THEN [exc |-> "KeyError", value |-> None]
             ELSE rank

\* the tuples and the lengths that add_mountains makes of its argument
AsTuples(ms) ==
    [i \in 1..Len(ms) |-> <<ms[i].length, ms[i].difficulty_level, ms[i].name>>]

AsLengths(ms) == [i \in 1..Len(ms) |-> ms[i].length]

add_mountains(o, ms) ==
    IF o.mountains = None
    THEN [mountains |-> mergesort(AsTuples(ms), "tuple"),
          lengths |-> mergesort(AsLengths(ms), "int")]
    ELSE [mountains |-> merge(o.mountains, mergesort(AsTuples(ms), "tuple"), "tuple"),
          lengths |-> merge(o.lengths, mergesort(AsLengths(ms), "int"), "int")]

(***************************************************************************)
(* The calls on the DoubleKeyTable.                                        *)
(***************************************************************************)
NoOp == [name |-> "init", key1 |-> <<>>, key2 |-> <<>>, value |-> 0]

Install(T) ==
    /\ top_table_sizes' = T.top_table_sizes
    /\ internal_table_sizes' = T.internal_table_sizes
    /\ top_array' = T.top_array
    /\ length' = T.length
    /\ top_length' = T.top_length
    /\ top_table_sizes_index' = T.top_table_sizes_index

\* table[(key1, key2)] = data
SetCall(key1, key2, data) ==
    /\ LET r == DKT__setitem__(Self, key1, key2, data)
       IN  /\ Install(r.t)
           /\ ret' = r.exc
    /\ op' = [name |-> "set", key1 |-> key1, key2 |-> key2, value |-> data]
    /\ nops' = nops + 1
    /\ UNCHANGED <<trieVars, trailVars, organiserVars, returned>>

\* del table[(key1, key2)]
DelCall(key1, key2) ==
    /\ LET r == DKT__delitem__(Self, key1, key2)
       IN  /\ Install(r.t)
           /\ ret' = r.exc
    /\ op' = [name |-> "del", key1 |-> key1, key2 |-> key2, value |-> 0]
    /\ nops' = nops + 1
    /\ UNCHANGED <<trieVars, trailVars, organiserVars, returned>>

\* the calls of a run of at most MaxOps sets and deletes
DoSet(key1, key2, data) == nops < MaxOps /\ SetCall(key1, key2, data)

DoDel(key1, key2) == nops < MaxOps /\ DelCall(key1, key2)

\* the map a caller holds after a call that returned: the key it set is
\* bound to the value, the key it deleted is gone
Bind(m, key, value) ==
    [k \in DOMAIN m \cup {key} |-> IF k = key THEN value ELSE m[k]]

Unbind(m, key) == [k \in DOMAIN m \ {key} |-> m[k]]

\* trie[key] = value
TrieSet(key, value) ==
    /\ LET r == IHT__setitem__(root, key, value, 1)
       IN  /\ root' = r.t
           /\ ret' = r.exc
           /\ live' = IF r.exc = NoExc THEN Bind(live, key, value) ELSE live
    /\ op' = [name |-> "set", key1 |-> key, key2 |-> <<>>, value |-> value]
    /\ UNCHANGED <<dktVars, nops, trailVars, organiserVars, returned>>

\* del trie[key]
TrieDel(key) ==
    /\ LET r == IHT__delitem__(root, key)
       IN  /\ root' = r.t
           /\ ret' = r.exc
           /\ live' = IF r.exc = NoExc THEN Unbind(live, key) ELSE live
    /\ op' = [name |-> "del", key1 |-> key, key2 |-> <<>>, value |-> 0]
    /\ UNCHANGED <<dktVars, nops, trailVars, organiserVars, returned>>

\* DoubleKeyTable(sizes=ConfigTopSizes, internal_sizes=ConfigInternalSizes)
\* and InfiniteHashTable()
Init ==
    /\ top_table_sizes = ConfigTopSizes
    /\ internal_table_sizes = ConfigInternalSizes
    /\ top_array = EmptyArray(ConfigTopSizes[1])
    /\ length = 0
    /\ top_length = 0
    /\ top_table_sizes_index = 0
    /\ root = InfiniteHashTable(0)
    /\ live = <<>>
    /\ op = NoOp
    /\ ret = NoExc
    /\ nops = 0
    /\ store = None
    /\ mountains = None
    /\ lengths = None
    /\ added = <<>>
    /\ returned = None

Next ==
    \/ \E key1 \in DKeys1, key2 \in DKeys2, data \in DValues : DoSet(key1, key2, data)
    \/ \E key1 \in DKeys1, key2 \in DKeys2 : DoDel(key1, key2)

Spec == Init /\ [][Next]_vars

NextTrie ==
    \/ \E key \in TKeys, value \in TValues : TrieSet(key, value)
    \/ \E key \in TKeys : TrieDel(key)

SpecTrie == Init /\ [][NextTrie]_vars

\* DoubleKeyTable(sizes=[5, 7, 11], internal_sizes=[2, 3]): the outer array
\* grows at the third and at the fourth K1
GrowTopSizes == <<5, 7, 11>>

\* K1 keys ">", "a", "f", "k": all four hash to 2 in an outer array of 5,
\* and ">" and "a" both hash to 6 in an outer array of 7
GKeys1 == {<<62>>, <<97>>, <<102>>, <<107>>}

InitGrow ==
    /\ top_table_sizes = GrowTopSizes
    /\ internal_table_sizes = ConfigInternalSizes
    /\ top_array = EmptyArray(GrowTopSizes[1])
    /\ length = 0
    /\ top_length = 0
    /\ top_table_sizes_index = 0
    /\ root = InfiniteHashTable(0)
    /\ live = <<>>
    /\ op = NoOp
    /\ ret = NoExc
    /\ nops = 0
    /\ store = None
    /\ mountains = None
    /\ lengths = None
    /\ added = <<>>
    /\ returned = None

NextGrow ==
    \/ \E key1 \in GKeys1, key2 \in DKeys2 : DoSet(key1, key2, 1)
    \/ \E key1 \in GKeys1, key2 \in DKeys2 : DoDel(key1, key2)

SpecGrow == InitGrow /\ [][NextGrow]_vars

\* longer runs on two K1 keys, ">" and "a", which collide in the outer array
\* of 5: a bucket comes to hold a K2 twice in six calls, and two deletes
\* then empty it
MaxDriftOps == 8

DriftKeys1 == {<<62>>, <<97>>}

NextDrift ==
    \/ \E key1 \in DriftKeys1, key2 \in DKeys2 : nops < MaxDriftOps /\ SetCall(key1, key2, 1)
    \/ \E key1 \in DriftKeys1, key2 \in DKeys2 : nops < MaxDriftOps /\ DelCall(key1, key2)

SpecDrift == InitGrow /\ [][NextDrift]_vars

\* DoubleKeyTable(sizes=[4, 5, 7, 11], internal_sizes=[2, 3]): the set of the
\* third K1 starts a rehash to 5 whose first reinsertion starts a rehash to 7
NestTopSizes == <<4, 5, 7, 11>>

InitNest ==
    /\ top_table_sizes = NestTopSizes
    /\ internal_table_sizes = ConfigInternalSizes
    /\ top_array = EmptyArray(NestTopSizes[1])
    /\ length = 0
    /\ top_length = 0
    /\ top_table_sizes_index = 0
    /\ root = InfiniteHashTable(0)
    /\ live = <<>>
    /\ op = NoOp
    /\ ret = NoExc
    /\ nops = 0
    /\ store = None
    /\ mountains = None
    /\ lengths = None
    /\ added = <<>>
    /\ returned = None

SpecNest == InitNest /\ [][NextGrow]_vars

\* DoubleKeyTable(sizes=[2, 3], internal_sizes=[2, 3]): the set of the second
\* K1 grows the outer array to its last size, which the third K1 fills
FullTopSizes == <<2, 3>>

InitFull ==
    /\ top_table_sizes = FullTopSizes
    /\ internal_table_sizes = ConfigInternalSizes
    /\ top_array = EmptyArray(FullTopSizes[1])
    /\ length = 0
    /\ top_length = 0
    /\ top_table_sizes_index = 0
    /\ root = InfiniteHashTable(0)
    /\ live = <<>>
    /\ op = NoOp
    /\ ret = NoExc
    /\ nops = 0
    /\ store = None
    /\ mountains = None
    /\ lengths = None
    /\ added = <<>>
    /\ returned = None

SpecFull == InitFull /\ [][NextGrow]_vars

(***************************************************************************)
(* The read-only calls on the DoubleKeyTable, made on the tables that at   *)
(* most MaxReadOps sets and deletes build.  A read installs the table the  *)
(* call leaves behind: get and contains the table _linear_probe returns,   *)
(* the others, which assign to nothing, the table they were called on.     *)
(***************************************************************************)
MaxReadOps == 4

ReadOp(name, key1, key2) == [name |-> name, key1 |-> key1, key2 |-> key2, value |-> 0]

\* __getitem__ with line 548 probing as an insert does,
\* self._linear_probe(key1, key2, True): the lookup of a K1 that has no
\* bucket leaves one behind
DoGetInsert(key1, key2) ==
    /\ Install(_linear_probe(Self, key1, key2, TRUE).t)
    /\ LET g == DKT__getitem__(Self, key1, key2)
       IN  /\ ret' = g.exc
           /\ returned' = g.value
    /\ op' = ReadOp("get", key1, key2)
    /\ UNCHANGED <<nops, trieVars, trailVars, organiserVars>>

\* table[(key1, key2)]
DoGet(key1, key2) ==
    /\ Install(_linear_probe(Self, key1, key2, FALSE).t)
    /\ LET g == DKT__getitem__(Self, key1, key2)
       IN  /\ ret' = g.exc
           /\ returned' = g.value
    /\ op' = ReadOp("get", key1, key2)
    /\ UNCHANGED <<nops, trieVars, trailVars, organiserVars>>

\* (key1, key2) in table
DoContains(key1, key2) ==
    /\ Install(_linear_probe(Self, key1, key2, FALSE).t)
    /\ LET c == DKT__contains__(Self, key1, key2)
       IN  /\ ret' = c.exc
           /\ returned' = c.value
    /\ op' = ReadOp("contains", key1, key2)
    /\ UNCHANGED <<nops, trieVars, trailVars, organiserVars>>

\* table.keys(key)
DoKeys(key) ==
    /\ returned' = DKT_keys(Self, key)
    /\ ret' = NoExc
    /\ op' = ReadOp("keys", key, None)
    /\ UNCHANGED <<dktVars, nops, trieVars, trailVars, organiserVars>>

\* table.values(key)
DoValues(key) ==
    /\ returned' = DKT_values(Self, key)
    /\ ret' = NoExc
    /\ op' = ReadOp("values", key, None)
    /\ UNCHANGED <<dktVars, nops, trieVars, trailVars, organiserVars>>

\* len(table)
DoLen ==
    /\ returned' = DKT__len__(Self)
    /\ ret' = NoExc
    /\ op' = ReadOp("len", None, None)
    /\ UNCHANGED <<dktVars, nops, trieVars, trailVars, organiserVars>>

\* table.table_size
DoTableSize ==
    /\ returned' = table_size(Self)
    /\ ret' = NoExc
    /\ op' = ReadOp("table_size", None, None)
    /\ UNCHANGED <<dktVars, nops, trieVars, trailVars, organiserVars>>

NextRead ==
    \/ \E key1 \in DKeys1, key2 \in DKeys2 : nops < MaxReadOps /\ DoSet(key1, key2, 1)
    \/ \E key1 \in DKeys1, key2 \in DKeys2 : nops < MaxReadOps /\ DoDel(key1, key2)
    \/ \E key1 \in DKeys1, key2 \in DKeys2 : DoGet(key1, key2)
    \/ \E key1 \in DKeys1, key2 \in DKeys2 : DoContains(key1, key2)
    \/ \E key \in DKeys1 \cup {None} : DoKeys(key)
    \/ \E key \in DKeys1 \cup {None} : DoValues(key)
    \/ DoLen
    \/ DoTableSize

SpecRead == Init /\ [][NextRead]_vars

(***************************************************************************)
(* The calls on a Trail.  The trail under test is built from Trail(None)   *)
(* by the two Trail methods and by the TrailSplit constructor, as the      *)
(* __main__ block of trail.py builds its example.                          *)
(***************************************************************************)
\* Mountain("a", 1, 3), Mountain("b", 2, 3)
TMountains == {Mountain(<<97>>, 1, 3), Mountain(<<98>>, 2, 3)}

\* the stores given to the TrailSplit constructor beside the trail under test
BranchStores == {None} \cup {TrailSeries(m, Trail(None)) : m \in TMountains}

\* the number of TrailSeries and TrailSplit objects of a store
RECURSIVE TrailSize(_)
TrailSize(st) ==
    IF st = None THEN 0
    ELSE IF IsSeries(st) THEN 1 + TrailSize(st.following.store)
    ELSE 1 + TrailSize(st.path_top.store) + TrailSize(st.path_bottom.store)
           + TrailSize(st.path_follow.store)

TrailOp(name, k) == [name |-> name, key1 |-> <<>>, key2 |-> <<>>, value |-> k]

\* trail = trail.add_mountain_before(mountain)
AddMountainBefore(mountain) ==
    /\ TrailSize(store) < MaxTrailSize
    /\ store' = add_mountain_before(store, mountain)
    /\ op' = TrailOp("add_mountain_before", 0)
    /\ ret' = NoExc
    /\ returned' = None
    /\ UNCHANGED <<dktVars, nops, trieVars, organiserVars>>

\* trail = trail.add_empty_branch_before()
AddEmptyBranchBefore ==
    /\ TrailSize(store) < MaxTrailSize
    /\ store' = add_empty_branch_before(store)
    /\ op' = TrailOp("add_empty_branch_before", 0)
    /\ ret' = NoExc
    /\ returned' = None
    /\ UNCHANGED <<dktVars, nops, trieVars, organiserVars>>

\* trail = Trail(TrailSplit(trail, Trail(bottom), Trail(follow)))
SplitAround(bottom, follow) ==
    /\ TrailSize(store) + TrailSize(bottom) + TrailSize(follow) < MaxTrailSize
    /\ store' = TrailSplit(Trail(store), Trail(bottom), Trail(follow))
    /\ op' = TrailOp("TrailSplit", 0)
    /\ ret' = NoExc
    /\ returned' = None
    /\ UNCHANGED <<dktVars, nops, trieVars, organiserVars>>

\* trail.length_k_paths(k)
LengthKPaths(k) ==
    /\ LET r == length_k_paths(store, k)
       IN  /\ ret' = r.exc
           /\ returned' = r.value
    /\ op' = TrailOp("length_k_paths", k)
    /\ UNCHANGED <<dktVars, nops, trieVars, trailVars, organiserVars>>

NextTrail ==
    \/ \E mountain \in TMountains : AddMountainBefore(mountain)
    \/ AddEmptyBranchBefore
    \/ \E bottom \in BranchStores, follow \in BranchStores : SplitAround(bottom, follow)
    \/ \E k \in 0..MaxK : LengthKPaths(k)

SpecTrail == Init /\ [][NextTrail]_vars

(***************************************************************************)
(* The calls of follow_path.  The trail is built as under SpecTrail; the   *)
(* personality answers each select_branch call as the caller chose.        *)
(***************************************************************************)
\* the number of TrailSplit objects of a store
RECURSIVE SplitCount(_)
SplitCount(st) ==
    IF st = None THEN 0
    ELSE IF IsSeries(st) THEN SplitCount(st.following.store)
    ELSE 1 + SplitCount(st.path_top.store) + SplitCount(st.path_bottom.store)
           + SplitCount(st.path_follow.store)

\* the answers a personality may give to n calls of select_branch
Answers(n) == [1..n -> BOOLEAN]

\* trail.follow_path(personality): returned is personality.mountains after
\* the call, op.value the answers the personality was made with
FollowPath(answers) ==
    /\ returned' = follow_path(store, WalkerPersonality(answers)).mountains
    /\ ret' = NoExc
    /\ op' = TrailOp("follow_path", answers)
    /\ UNCHANGED <<dktVars, nops, trieVars, trailVars, organiserVars>>

NextFollow ==
    \/ \E mountain \in TMountains : AddMountainBefore(mountain)
    \/ AddEmptyBranchBefore
    \/ \E bottom \in BranchStores, follow \in BranchStores : SplitAround(bottom, follow)
    \/ \E answers \in Answers(SplitCount(store)) : FollowPath(answers)

SpecFollow == Init /\ [][NextFollow]_vars

(***************************************************************************)
(* The calls on a MountainOrganiser.                                       *)
(***************************************************************************)
\* Mountain("a", 1, 3), Mountain("b", 2, 3), Mountain("c", 1, 5),
\* Mountain("d", 1, 2): two of the same length, one longer, one shorter
OMountains == {Mountain(<<97>>, 1, 3), Mountain(<<98>>, 2, 3),
               Mountain(<<99>>, 1, 5), Mountain(<<100>>, 1, 2)}

\* the lists given to add_mountains: one or two mountains
MountainLists ==
    {<<m>> : m \in OMountains} \cup {<<m, n>> : m \in OMountains, n \in OMountains}

\* organiser.add_mountains(ms)
AddMountains(ms) ==
    /\ Len(added) + Len(ms) <= MaxMountains
    /\ LET o == add_mountains(Organiser, ms)
       IN  /\ mountains' = o.mountains
           /\ lengths' = o.lengths
    /\ added' = added \o ms
    /\ op' = [name |-> "add_mountains", key1 |-> <<>>, key2 |-> <<>>, value |-> ms]
    /\ ret' = NoExc
    /\ returned' = None
    /\ UNCHANGED <<dktVars, nops, trieVars, trailVars>>

\* organiser.cur_position(mountain)
CurPosition(mountain) ==
    /\ LET r == cur_position(Organiser, mountain)
       IN  /\ ret' = r.exc
           /\ returned' = r.value
    /\ op' = [name |-> "cur_position", key1 |-> <<>>, key2 |-> <<>>, value |-> mountain]
    /\ UNCHANGED <<dktVars, nops, trieVars, trailVars, organiserVars>>

NextOrganiser ==
    \/ \E ms \in MountainLists : AddMountains(ms)
    \/ \E mountain \in OMountains : CurPosition(mountain)

SpecOrganiser == Init /\ [][NextOrganiser]_vars

(***************************************************************************)
(* Properties of the DoubleKeyTable, checked under Spec.                   *)
(***************************************************************************)
SelfNext == Self'

Get(T, key1, key2) == DKT__getitem__(T, key1, key2)

Returned(value) == [exc |-> NoExc, value |-> value]

\* the outer positions that hold a bucket
Occupied(T) == {pos \in 0..(Len(T.top_array) - 1) : T.top_array[pos + 1] # None}

\* the (key1, key2) pairs stored in the buckets
StoredPairs(T) ==
    UNION {{<<T.top_array[pos + 1][1], item[1]>> :
                item \in {Tab(T, pos).array[x] : x \in 1..Len(Tab(T, pos).array)} \ {None}} :
           pos \in Occupied(T)}

\* the bucket of key1 was moved by the re-pack of a delete: it sits at an
\* outer position other than the one its hash reads
Moved(T, key1) ==
    \E pos \in Occupied(T) :
        T.top_array[pos + 1][1] = key1 /\ Tab(T, pos).hpos # pos

C2_DeleteKeepsOthers ==
    [][(op'.name = "del" /\ ret' = NoExc) =>
          \A key1 \in DKeys1, key2 \in DKeys2 :
              (<<key1, key2>> # <<op'.key1, op'.key2>>
               /\ Get(Self, key1, key2).exc = NoExc)
                  => Get(SelfNext, key1, key2) = Get(Self, key1, key2)]_vars

\* C3: after delete((k1, k2)) completes, get((k1, k2)) raises KeyError and
\* contains((k1, k2)) is false.
C3_DeleteThenGet ==
    (op.name = "del" /\ ret = NoExc) =>
        /\ Get(Self, op.key1, op.key2).exc = "KeyError"
        /\ DKT__contains__(Self, op.key1, op.key2) = Returned(FALSE)

\* the sum of the sizes (count) of the inner buckets at positions pos..
RECURSIVE SumCounts(_, _)
SumCounts(T, pos) ==
    IF pos >= Len(T.top_array) THEN 0
    ELSE (IF T.top_array[pos + 1] = None THEN 0 ELSE Tab(T, pos).count)
         + SumCounts(T, pos + 1)

\* C4: after every call that completes, len(table) is the number of distinct
\* (k1, k2) pairs the table holds, which is the sum of the sizes of the inner
\* buckets.
C4_LenIsPairs ==
    (ret = NoExc) =>
        /\ DKT__len__(Self) = Cardinality(StoredPairs(Self))
        /\ DKT__len__(Self) = SumCounts(Self, 0)

(***************************************************************************)
(* Properties of the InfiniteHashTable, checked under SpecTrie.            *)
(***************************************************************************)
\* the keys of the Nodes reachable from table t
RECURSIVE LeafKeys(_)
LeafKeys(t) ==
    UNION {IF t.table[i] = None THEN {}
           ELSE IF IsTable(t.table[i]) THEN LeafKeys(t.table[i])
           ELSE {t.table[i].key} : i \in 1..TABLE_SIZE}

\* the number of child tables reachable from table t
RECURSIVE Children(_, _)
Children(t, i) ==
    IF i > TABLE_SIZE THEN 0
    ELSE (IF t.table[i] # None /\ IsTable(t.table[i])
          THEN 1 + Children(t.table[i], 1) ELSE 0) + Children(t, i + 1)

\* the slot of table t that key hashes to
Slot(t, key) == t.table[IHT_hash(t, key) + 1]

\* C5: get of a key that no Nodes of the trie holds raises KeyError and
\* contains of it is false: at an empty slot, at a Nodes of another key, and
\* below child tables.
C5_AbsentKeyNotFound ==
    \A key \in TKeys \ LeafKeys(root) :
        /\ IHT__getitem__(root, key).exc = "KeyError"
        /\ ~IHT__contains__(root, key)

\* C6: set on a key that is live completes, get then returns the new value,
\* the size is as before and no child table is made.
C6_Overwrite ==
    [][(op'.name = "set" /\ op'.key1 \in LeafKeys(root)) =>
          /\ ret' = NoExc
          /\ IHT__getitem__(root', op'.key1) = Returned(op'.value)
          /\ IHT__len__(root') = IHT__len__(root)
          /\ Children(root', 1) = Children(root, 1)]_vars

\* C7: delete of a key that is not live raises KeyError and leaves the table
\* as it was.
C7_DeleteAbsent ==
    [][(op'.name = "del" /\ op'.key1 \notin LeafKeys(root)) =>
          /\ ret' = "KeyError"
          /\ root' = root]_vars

\* C8: when set(k, v) completes for a key that was not live, get(k) returns v
\* and contains(k) is true.
C8_SetThenGet ==
    (op.name = "set" /\ ret = NoExc) =>
        /\ IHT__getitem__(root, op.key1) = Returned(op.value)
        /\ IHT__contains__(root, op.key1)

\* a set that completed below two levels of child tables, in a trie of at
\* least three keys from which a delete has removed a leaf
C8_Witness ==
    /\ op.name = "set" /\ ret = NoExc
    /\ IsTable(Slot(root, op.key1))
    /\ IsTable(Slot(Slot(root, op.key1), op.key1))
    /\ Cardinality(LeafKeys(root)) >= 3
    /\ DOMAIN live # LeafKeys(root)

\* C9: after delete(k) of a live key completes, get(k) raises KeyError and
\* contains(k) is false.
C9_DeleteThenGet ==
    [][(op'.name = "del" /\ ret' = NoExc /\ op'.key1 \in LeafKeys(root)) =>
          /\ IHT__getitem__(root', op'.key1).exc = "KeyError"
          /\ ~IHT__contains__(root', op'.key1)]_vars

\* C10: size() is the number of keys that were set and not deleted since.
C10_SizeIsLive == IHT__len__(root) = Cardinality(DOMAIN live)

\* the child tables reachable from table t
RECURSIVE ChildTables(_)
ChildTables(t) ==
    UNION {IF t.table[i] # None /\ IsTable(t.table[i])
           THEN {t.table[i]} \cup ChildTables(t.table[i])
           ELSE {} : i \in 1..TABLE_SIZE}

\* C11: after every set or delete, no child table reachable from the root
\* has size 0 or 1: an emptied child is removed and a child left with one leaf
\* is replaced by that leaf, at every ancestor.
C11_TrieShape ==
    \A child \in ChildTables(root) : IHT__len__(child) >= 2

\* a delete that completed below two levels of child tables and left, in the
\* root slot of its key, the leaf of another key that shares two symbols with
\* it (both child tables were collapsed)
C11_Witness ==
    /\ op.name = "del" /\ ret = NoExc
    /\ Len(op.key1) = 3
    /\ Slot(root, op.key1) # None
    /\ ~IsTable(Slot(root, op.key1))
    /\ Slot(root, op.key1).key # op.key1
    /\ SubSeq(Slot(root, op.key1).key, 1, 2) = SubSeq(op.key1, 1, 2)
    /\ op.key1 \notin DOMAIN live

(***************************************************************************)
(* Growth of the DoubleKeyTable, checked under SpecGrow.                   *)
(***************************************************************************)
\* the K1 keys that have an outer slot
OuterKeys(T) == {T.top_array[pos + 1][1] : pos \in Occupied(T)}

\* the sizes of a size sequence
Sizes(sizes) == {sizes[i] : i \in 1..Len(sizes)}

\* C12: a set that completes and brings the number of occupied outer slots
\* past half of the outer capacity, while the outer size sequence has a size
\* left, returns with a strictly larger outer capacity.
C12_GrowthOnThreshold ==
    [][(/\ op'.name = "set" /\ ret' = NoExc
        /\ op'.key1 \notin OuterKeys(Self)
        /\ 2 * (Cardinality(Occupied(Self)) + 1) > table_size(Self)
        /\ top_table_sizes_index + 1 < Len(top_table_sizes))
          => table_size(SelfNext) > table_size(Self)]_vars

\* the fourth call, the set of a fourth K1, has returned: the outer array
\* has grown for the second time and holds its four buckets
C12_Witness ==
    /\ op.name = "set" /\ ret = NoExc
    /\ nops = 4
    /\ table_size(Self) = GrowTopSizes[3]
    /\ Cardinality(OuterKeys(Self)) = 4

\* C13: the outer capacity is the first size of the configured sequence after
\* construction, never decreases, and always is a size of that sequence.
C13_CapacityMonotone ==
    /\ table_size(Self) = top_table_sizes[1]
    /\ [][table_size(SelfNext) >= table_size(Self)]_vars
    /\ [](table_size(Self) \in Sizes(top_table_sizes))

\* the outer array has grown to the second size, a delete has since moved a
\* bucket (its re-pack), and a call has failed on it
C13_Witness ==
    /\ table_size(Self) = GrowTopSizes[2]
    /\ \E key1 \in OuterKeys(Self) : Moved(Self, key1)
    /\ ret = "TypeError"

(***************************************************************************)
(* Further properties of the DoubleKeyTable, checked under Spec.           *)
(***************************************************************************)
\* the inner bucket of a K1 that has an outer slot
BucketOf(T, key1) ==
    Tab(T, CHOOSE pos \in Occupied(T) : T.top_array[pos + 1][1] = key1)

\* C14: for every K1 that has a bucket before and after a call, the capacity
\* of its bucket after the call is at least its capacity before, outer
\* rehashes included.
C14_InnerCapacityMonotone ==
    [][\A key1 \in OuterKeys(Self) \cap OuterKeys(SelfNext) :
          Len(BucketOf(SelfNext, key1).array) >= Len(BucketOf(Self, key1).array)]_vars

\* C15: get and delete of a pair that is not stored raise KeyError and leave
\* the table as it was, whether K1 has no bucket or its bucket lacks K2; the
\* failed lookup makes no bucket.
C15_AbsentPairKeyError ==
    /\ [](\A key1 \in DKeys1, key2 \in DKeys2 :
             <<key1, key2>> \notin StoredPairs(Self) =>
                 /\ Get(Self, key1, key2).exc = "KeyError"
                 /\ _linear_probe(Self, key1, key2, FALSE).t = Self)
    /\ [][(op'.name = "del" /\ <<op'.key1, op'.key2>> \notin StoredPairs(Self)) =>
             /\ ret' = "KeyError"
             /\ SelfNext = Self]_vars

\* C16: a set either completes, with the value written, or raises FullError
\* with the table exactly as before the call; for a K1 that has no bucket,
\* FullError is raised only when every outer slot is occupied.
C16_SetAllOrNothing ==
    [][(op'.name = "set") =>
          \/ /\ ret' = NoExc
             /\ Get(SelfNext, op'.key1, op'.key2) = Returned(op'.value)
          \/ /\ ret' = "FullError"
             /\ SelfNext = Self
             /\ (op'.key1 \notin OuterKeys(Self) =>
                    Cardinality(Occupied(Self)) = table_size(Self))]_vars

(***************************************************************************)
(* Enumeration of the DoubleKeyTable, checked under Spec.                  *)
(***************************************************************************)
\* the K1s that have a stored pair, and the K2s stored under a K1
LiveK1(T) == {pair[1] : pair \in StoredPairs(T)}

K2sOf(T, key1) == {pair[2] : pair \in {q \in StoredPairs(T) : q[1] = key1}}

Elems(list) == {list[i] : i \in 1..Len(list)}

NoDup(list) == \A i, j \in 1..Len(list) : i # j => list[i] # list[j]

Count(list, v) == Cardinality({i \in 1..Len(list) : list[i] = v})

\* the value stored with (key1, key2): that of its first entry in slot order
PairValue(T, key1, key2) ==
    LET array == BucketOf(T, key1).array
        slots == {x \in 1..Len(array) : array[x] # None /\ array[x][1] = key2}
        first == CHOOSE x \in slots : \A y \in slots : x <= y
    IN  array[first][2]

\* C17: keys() lists every live K1 once, keys(k1) lists the K2s of the live
\* pairs under k1 once each, values() is the multiset of the values of all
\* live pairs and values(k1) that of the live pairs under k1.
C17_EagerEnumeration ==
    /\ DKT_keys(Self, None).returns = "list"
    /\ NoDup(DKT_keys(Self, None).list)
    /\ Elems(DKT_keys(Self, None).list) = LiveK1(Self)
    /\ \A v \in DValues :
          Count(DKT_values(Self, None), v) =
              Cardinality({pair \in StoredPairs(Self) :
                              PairValue(Self, pair[1], pair[2]) = v})
    /\ \A key1 \in LiveK1(Self) :
          /\ DKT_keys(Self, key1).returns = "list"
          /\ NoDup(DKT_keys(Self, key1).list)
          /\ Elems(DKT_keys(Self, key1).list) = K2sOf(Self, key1)
          /\ \A v \in DValues :
                Count(DKT_values(Self, key1), v) =
                    Cardinality({key2 \in K2sOf(Self, key1) :
                                    PairValue(Self, key1, key2) = v})

(***************************************************************************)
(* The order of keys(k1), checked under SpecGrow.                          *)
(***************************************************************************)
\* every call so far has stored a new pair: the table was built by inserts
\* alone, with no delete, overwrite or failed call
OnlyInserts == nops = Cardinality(StoredPairs(Self))

\* C18 as stated: in a table built by inserts alone, an insert of a new K2
\* under a K1 puts it at the end of keys(k1), so that keys(k1) lists the K2s
\* in the order of their insertion.
C18_KeysInsertionOrder ==
    [][(/\ op'.name = "set" /\ ret' = NoExc
        /\ OnlyInserts /\ OnlyInserts'
        /\ op'.key1 \in LiveK1(Self))
          => DKT_keys(SelfNext, op'.key1).list =
                 Append(DKT_keys(Self, op'.key1).list, op'.key2)]_vars

\* the K2s of the occupied slots of a bucket array, by ascending slot index
SlotOrderKeys(array) ==
    LET occ == {x \in 1..Len(array) : array[x] # None}
        nth(i) == CHOOSE x \in occ : Cardinality({y \in occ : y < x}) = i - 1
    IN  [i \in 1..Cardinality(occ) |-> array[nth(i)][1]]

\* C18 amended: keys(k1) lists the K2s of k1 in the slot order of its inner
\* bucket, whatever the order of their insertion.
C18_KeysSlotOrder ==
    \A key1 \in LiveK1(Self) :
        /\ DKT_keys(Self, key1).returns = "list"
        /\ DKT_keys(Self, key1).list = SlotOrderKeys(BucketOf(Self, key1).array)

\* "z" then "x" were inserted under one K1, after a pair of another K1, and
\* nothing else was done: keys(k1) is ["x", "z"]
C18_Witness ==
    /\ OnlyInserts /\ nops = 3
    /\ op.name = "set" /\ ret = NoExc /\ op.key2 = <<120>>
    /\ K2sOf(Self, op.key1) = {<<120>>, <<122>>}
    /\ Cardinality(LiveK1(Self)) = 2
    /\ DKT_keys(Self, op.key1).list = <<<<120>>, <<122>>>>

(***************************************************************************)
(* The lazy iterators of the DoubleKeyTable, checked under Spec.           *)
(***************************************************************************)
\* two lists hold the same elements the same number of times
SameBag(l1, l2) ==
    /\ Len(l1) = Len(l2)
    /\ \A v \in Elems(l1) \cup Elems(l2) : Count(l1, v) = Count(l2, v)

\* C19: next on iter_keys() yields the elements of keys() once each and then
\* raises StopIteration, and next on iter_values() yields the elements of
\* values() once each and then raises StopIteration, on the empty table too.
C19_UnfilteredIterators ==
    /\ DrainKeys(Self, iter_keys(None), MaxNext).exc = "StopIteration"
    /\ SameBag(DrainKeys(Self, iter_keys(None), MaxNext).list,
               DKT_keys(Self, None).list)
    /\ DrainValues(Self, iter_values(None), MaxNext).exc = "StopIteration"
    /\ SameBag(DrainValues(Self, iter_values(None), MaxNext).list,
               DKT_values(Self, None))

\* C20: for a K1 with a bucket, next on iter_keys(k1) yields the K2s of the
\* bucket once each and next on iter_values(k1) its values once each, then
\* they raise StopIteration; for a K1 without a bucket they raise
\* StopIteration at the first next.
C20_FilteredIterators ==
    \A key1 \in DKeys1 :
        /\ DrainKeys(Self, iter_keys(key1), MaxNext).exc = "StopIteration"
        /\ DrainValues(Self, iter_values(key1), MaxNext).exc = "StopIteration"
        /\ IF key1 \in OuterKeys(Self)
           THEN /\ SameBag(DrainKeys(Self, iter_keys(key1), MaxNext).list,
                           bucket_keys(BucketOf(Self, key1)))
                /\ SameBag(DrainValues(Self, iter_values(key1), MaxNext).list,
                           bucket_values(BucketOf(Self, key1)))
           ELSE /\ DrainKeys(Self, iter_keys(key1), MaxNext).list = <<>>
                /\ DrainValues(Self, iter_values(key1), MaxNext).list = <<>>

(***************************************************************************)
(* get_location, checked under SpecTrie.                                   *)
(***************************************************************************)
\* the index of key's symbol at a level of the trie
SymbolIndex(key, level) ==
    IF level < Len(key) THEN key[level + 1] % 26 ELSE 26

\* what the walk from table t along the indices of path ends at
RECURSIVE Walk(_, _)
Walk(t, path) ==
    IF path = <<>> THEN t
    ELSE IF t = None \/ ~IsTable(t) THEN None
    ELSE Walk(t.table[path[1] + 1], Tail(path))

\* C21: get_location of a key that was set and not deleted since returns
\* the indices from the root to the Nodes of the key, the i-th being the
\* key's symbol index at level i; get_location of any other key raises
\* KeyError.
C21_Locate ==
    \A key \in TKeys :
        LET r == get_location(root, key)
        IN  IF key \in DOMAIN live
            THEN /\ r.exc = NoExc
                 /\ \A i \in 1..Len(r.value) : r.value[i] = SymbolIndex(key, i - 1)
                 /\ Walk(root, r.value) = Nodes(key, live[key])
            ELSE r.exc = "KeyError"

\* C22: in every state and for every key, get returns a value exactly when
\* get_location returns a path, and raises KeyError exactly when
\* get_location does.
C22_GetLocateAgree ==
    \A key \in TKeys :
        /\ IHT__getitem__(root, key).exc = NoExc <=> get_location(root, key).exc = NoExc
        /\ IHT__getitem__(root, key).exc = "KeyError" <=>
               get_location(root, key).exc = "KeyError"

\* the keys "cat" and "car" of the collision scenario
Cat == <<99, 97, 116>>

Car == <<99, 97, 114>>

\* the empty level-0 table after set("cat", 1)
AfterCat == IHT__setitem__(InfiniteHashTable(0), Cat, 1, 1).t

\* the call set("car", 2) on the table that holds "cat" -> 1 alone
CollisionStep ==
    /\ root = AfterCat
    /\ op'.name = "set" /\ op'.key1 = Car /\ op'.value = 2

\* C23 as stated: after set("cat", 1) then set("car", 2) on the empty table,
\* the root slot of 'c' holds a child table and the paths of "cat" and "car"
\* have the same first index and differ at the second.
C23_DivergeAtSecond ==
    [][CollisionStep =>
          /\ ret' = NoExc
          /\ IsTable(Slot(root', Cat))
          /\ get_location(root', Cat).exc = NoExc
          /\ get_location(root', Car).exc = NoExc
          /\ get_location(root', Cat).value[1] = get_location(root', Car).value[1]
          /\ get_location(root', Cat).value[2] # get_location(root', Car).value[2]]_vars

\* C23 amended: after set("cat", 1) then set("car", 2) on the empty table,
\* the root slot of 'c' holds a child table and the paths of "cat" and "car"
\* have three indices each, the same first and second index (the keys share
\* 'c' and 'a') and a different third.
C23_DivergeAtThird ==
    [][CollisionStep =>
          /\ ret' = NoExc
          /\ IsTable(Slot(root', Cat))
          /\ get_location(root', Cat).exc = NoExc
          /\ get_location(root', Car).exc = NoExc
          /\ Len(get_location(root', Cat).value) = 3
          /\ Len(get_location(root', Car).value) = 3
          /\ get_location(root', Cat).value[1] = get_location(root', Car).value[1]
          /\ get_location(root', Cat).value[2] = get_location(root', Car).value[2]
          /\ get_location(root', Cat).value[3] # get_location(root', Car).value[3]]_vars

\* the state after set("cat", 1) then set("car", 2): the last call set "car"
\* to 2 and returned, and the trie is the one those two calls build
C23_Witness ==
    /\ op.name = "set" /\ op.key1 = Car /\ op.value = 2 /\ ret = NoExc
    /\ live = Bind(Bind(<<>>, Cat, 1), Car, 2)
    /\ root = IHT__setitem__(AfterCat, Car, 2, 1).t
    /\ LeafKeys(root) = {Cat, Car}

\* keys k and other are the only two keys of the map m with their first
\* symbol
OnlyPairUnder(m, k, other) ==
    /\ k \in DOMAIN m /\ other \in DOMAIN m /\ k # other
    /\ SymbolIndex(k, 0) = SymbolIndex(other, 0)
    /\ \A key \in DOMAIN m \ {k, other} : SymbolIndex(key, 0) # SymbolIndex(k, 0)

\* C24: a delete leaves get of every other live key as it was; and when the
\* deleted key and one other live key are the only two with their first
\* symbol, get_location of the other key is then the single root index of
\* that symbol and get of it still returns its value.
C24_DeleteCollapses ==
    [][op'.name = "del" =>
          /\ \A key \in DOMAIN live \ {op'.key1} :
                IHT__getitem__(root', key) = IHT__getitem__(root, key)
          /\ \A other \in DOMAIN live :
                OnlyPairUnder(live, op'.key1, other) =>
                    /\ ret' = NoExc
                    /\ get_location(root', other) =
                           [exc |-> NoExc, value |-> <<SymbolIndex(other, 0)>>]
                    /\ IHT__getitem__(root', other) = Returned(live[other])]_vars

(***************************************************************************)
(* Trail.length_k_paths, checked under SpecTrail.                          *)
(***************************************************************************)
\* the walks through a store: the branch taken at every split met, and the
\* mountains passed in order
RECURSIVE PathsThrough(_)
PathsThrough(st) ==
    IF st = None THEN {[branches |-> <<>>, path |-> <<>>]}
    ELSE IF IsSeries(st)
    THEN {[branches |-> p.branches, path |-> <<st.mountain>> \o p.path] :
             p \in PathsThrough(st.following.store)}
    ELSE {[branches |-> <<"top">> \o p[1].branches \o p[2].branches,
           path |-> p[1].path \o p[2].path] :
             p \in PathsThrough(st.path_top.store) \X PathsThrough(st.path_follow.store)}
         \cup
         {[branches |-> <<"bottom">> \o p[1].branches \o p[2].branches,
           path |-> p[1].path \o p[2].path] :
             p \in PathsThrough(st.path_bottom.store) \X PathsThrough(st.path_follow.store)}

\* a path as an element of the returned list: a list of Mountain objects
PathItem(path) == List([i \in 1..Len(path) |-> [mountain |-> path[i]]])

\* C25: length_k_paths(k) returns a list that holds, for every walk through
\* the trail that passes exactly k mountains, the list of those mountains,
\* once per walk, and nothing else.
C25_LengthKPaths ==
    op.name = "length_k_paths" =>
        LET want == {p \in PathsThrough(store) : Len(p.path) = op.value}
        IN  /\ ret = NoExc
            /\ Len(returned) = Cardinality(want)
            /\ \A p \in want :
                  Count(returned, PathItem(p.path)) =
                      Cardinality({q \in want : q.path = p.path})

(***************************************************************************)
(* MountainOrganiser.cur_position, checked under SpecOrganiser.            *)
(***************************************************************************)
\* the mountains added so far that are shorter than m, and those of m's length
Shorter(m) == {i \in 1..Len(added) : added[i].length < m.length}

SameLength(m) == {i \in 1..Len(added) : added[i].length = m.length}

\* C26: cur_position(m) of a mountain that was added returns a rank at which
\* the length-sorted list holds m (a rank after the shorter mountains and
\* among those of m's length); cur_position of a mountain that was never
\* added raises KeyError.
C26_CurPosition ==
    op.name = "cur_position" =>
        IF \E i \in 1..Len(added) : added[i] = op.value
        THEN /\ ret = NoExc
             /\ returned # None
             /\ returned[1] >= Cardinality(Shorter(op.value))
             /\ returned[1] < Cardinality(Shorter(op.value)) + Cardinality(SameLength(op.value))
             /\ mountains[returned[1] + 1] = AsTuples(<<op.value>>)[1]
        ELSE ret = "KeyError"

(***************************************************************************)
(* Invariants of the DoubleKeyTable.                                       *)
(***************************************************************************)
\* C27: the hash installed on the bucket at every occupied outer slot
\* computes hash2 against that bucket's own current size, for every K2:
\* it never reads an empty slot or a bucket of another size, also after a
\* delete's re-pack has moved the bucket.
C27_BucketHashOwnSize ==
    \A pos \in Occupied(Self) : \A key2 \in DKeys2 :
        BucketHash(Self, pos, key2) = [exc |-> NoExc, h |-> hash2(key2, Tab(Self, pos))]

\* the number of steps of a cyclic scan of an array of size slots from
\* index from to index to
Steps(from, to, size) == (to - from + size) % size

\* C28: for every K1 that holds an outer slot, the cyclic scan of the outer
\* array from hash1(K1) meets no empty slot before the slot of K1.
C28_OuterProbeInvariant ==
    \A pos \in Occupied(Self) :
        LET h == hash1(Self, top_array[pos + 1][1])
        IN  \A d \in 0..(Steps(h, pos, table_size(Self)) - 1) :
                top_array[((h + d) % table_size(Self)) + 1] # None

\* a delete has cleared an outer slot and its re-pack has moved the bucket
\* of another K1 to a different outer index, with a second K1 left beside it
C28_Witness ==
    /\ op.name = "del" /\ ret = NoExc
    /\ \E key1 \in OuterKeys(Self) : Moved(Self, key1)
    /\ Cardinality(Occupied(Self)) >= 2

\* C29: in the bucket at every occupied outer slot, for every K2 it holds,
\* the cyclic scan of the bucket's array from hash2(K2) against the bucket's
\* size meets no empty slot before the slot of K2.
C29_InnerProbeInvariant ==
    \A pos \in Occupied(Self) :
        LET array == Tab(Self, pos).array
        IN  \A x \in 0..(Len(array) - 1) :
                array[x + 1] # None =>
                    LET h == hash2(array[x + 1][1], Tab(Self, pos))
                    IN  \A d \in 0..(Steps(h, x, Len(array)) - 1) :
                            array[((h + d) % Len(array)) + 1] # None

\* C30: no K1 holds two outer slots.
C30_K1Unique ==
    \A pos1, pos2 \in Occupied(Self) :
        top_array[pos1 + 1][1] = top_array[pos2 + 1][1] => pos1 = pos2

\* the outer array has grown, a delete's re-pack has left a bucket at an
\* index other than the one it was made at, and three K1 hold outer slots
C30_Witness ==
    /\ top_table_sizes_index >= 1
    /\ \E key1 \in OuterKeys(Self) : Moved(Self, key1)
    /\ Cardinality(Occupied(Self)) >= 3

(***************************************************************************)
(* Counters and buckets of the DoubleKeyTable, checked under SpecDrift.    *)
(***************************************************************************)
\* C31: after every set or delete that completes, top_length is the number
\* of occupied outer slots, no occupied outer slot holds a bucket without a
\* pair, and the K1s that hold an outer slot are the K1s that have a stored
\* pair; a delete that completes on the last pair of a K1 clears the outer
\* slot of K1 and takes one off top_length.
C31_OuterOccupancy ==
    /\ []((ret = NoExc) =>
             /\ top_length = Cardinality(Occupied(Self))
             /\ \A pos \in Occupied(Self) : Tab(Self, pos).count > 0
             /\ OuterKeys(Self) = LiveK1(Self))
    /\ [][(op'.name = "del" /\ ret' = NoExc /\ K2sOf(Self, op'.key1) = {op'.key2}) =>
             /\ op'.key1 \notin OuterKeys(SelfNext)
             /\ top_length' = top_length - 1]_vars

(***************************************************************************)
(* The rehash of the DoubleKeyTable, checked under SpecNest.               *)
(***************************************************************************)
\* the (key1, key2, value) triples stored in the buckets
Triples(T) ==
    UNION {{<<T.top_array[pos + 1][1], item[1], item[2]>> :
                item \in {Tab(T, pos).array[x] : x \in 1..Len(Tab(T, pos).array)} \ {None}} :
           pos \in Occupied(T)}

\* line 594 sends the table W to _rehash, and the size sequence has a size left
RehashRuns(W) ==
    /\ 2 * W.top_length > table_size(W)
    /\ W.top_table_sizes_index + 1 < Len(W.top_table_sizes)

\* C32: when a set runs _rehash, nested rehashes included, the rehash
\* completes, and the (k1, k2, value) triples, len and top_length after it
\* are those before it.
C32_RehashPreserves ==
    [][(op'.name = "set") =>
          LET W == SetWrite(Self, op'.key1, op'.key2, op'.value)
          IN  (W.exc = NoExc /\ RehashRuns(W.t)) =>
                  /\ _rehash(W.t) = [t |-> SelfNext, exc |-> ret']
                  /\ ret' = NoExc
                  /\ Triples(SelfNext) = Triples(W.t)
                  /\ length' = W.t.length
                  /\ top_length' = W.t.top_length]_vars

(***************************************************************************)
(* The DoubleKeyTable at its last outer size, checked under SpecFull.      *)
(***************************************************************************)
\* the triples of the pairs other than (key1, key2)
OtherTriples(T, key1, key2) ==
    {tr \in Triples(T) : <<tr[1], tr[2]>> # <<key1, key2>>}

C34_SetCases ==
    [][(op'.name = "set") =>
          /\ (<<op'.key1, op'.key2>> \in StoredPairs(Self)) =>
                /\ ret' = NoExc
                /\ Get(SelfNext, op'.key1, op'.key2) = Returned(op'.value)
                /\ length' = length
                /\ top_length' = top_length
                /\ table_size(SelfNext) = table_size(Self)
                /\ StoredPairs(SelfNext) = StoredPairs(Self)
                /\ OtherTriples(SelfNext, op'.key1, op'.key2)
                       = OtherTriples(Self, op'.key1, op'.key2)
          /\ (<<op'.key1, op'.key2>> \notin StoredPairs(Self)
              /\ op'.key1 \in OuterKeys(Self)) =>
                /\ ret' = NoExc
                /\ length' = length + 1
                /\ top_length' = top_length
          /\ (op'.key1 \notin OuterKeys(Self) /\ ret' = NoExc) =>
                /\ length' = length + 1
                /\ top_length' = top_length + 1]_vars

(***************************************************************************)
(* Termination and shape of the InfiniteHashTable, checked under SpecTrie. *)
(***************************************************************************)
\* the length of the longest key that was set and not deleted since
LongestLive ==
    IF DOMAIN live = {} THEN 0
    ELSE CHOOSE n \in {Len(key) : key \in DOMAIN live} :
             \A key \in DOMAIN live : Len(key) <= n

\* C35: every set and delete returns or raises KeyError, as get and
\* get_location do for every key in every state, and the level of every child
\* table reachable from the root is at most the length of the longest key
\* that was set and not deleted since.
C35_TrieTerminates ==
    /\ ret \in {NoExc, "KeyError"}
    /\ \A key \in TKeys :
           /\ IHT__getitem__(root, key).exc \in {NoExc, "KeyError"}
           /\ get_location(root, key).exc \in {NoExc, "KeyError"}
    /\ \A child \in ChildTables(root) : child.level <= LongestLive

\* the trie of the map m below the symbol path shared by keys, which sits at
\* level: a slot is None when no key of keys has its index at this level,
\* the Nodes of the key when one has, and a child table when several have
RECURSIVE CanonicalTrie(_, _, _)
CanonicalTrie(m, keys, level) ==
    [table |-> [i \in 1..TABLE_SIZE |->
                   LET here == {key \in keys : SymbolIndex(key, level) = i - 1}
                   IN  IF here = {} THEN None
                       ELSE IF Cardinality(here) = 1
                       THEN LET key == CHOOSE k \in here : TRUE
                            IN  Nodes(key, m[key])
                       ELSE CanonicalTrie(m, here, level + 1)],
     level |-> level]

\* C36: the trie is the one its map of live keys determines, whatever the
\* sets and deletes that led to the map: at every level a slot is None, the
\* Nodes of the one live key with that symbol path, or a child table when at
\* least two live keys share the path.
C36_ShapeFromLiveMap == root = CanonicalTrie(live, DOMAIN live, 0)

(***************************************************************************)
(* Trail.follow_path, checked under SpecFollow.                            *)
(***************************************************************************)
\* the walks through the trail that take, at the i-th split they meet, the
\* branch the i-th answer selects
Routes(st, answers) ==
    {p \in PathsThrough(st) :
        /\ Len(p.branches) <= Len(answers)
        /\ \A i \in 1..Len(p.branches) : (p.branches[i] = "top") = answers[i]}

\* C37: follow_path returns, and the mountains the personality was given by
\* add_mountain are, in order and each as often as it is passed, the
\* mountains of the one walk that takes at every split the branch
\* select_branch selected, the branch before the split's path_follow.
C37_FollowPath ==
    op.name = "follow_path" =>
        /\ ret = NoExc
        /\ Cardinality(Routes(store, op.value)) = 1
        /\ \A p \in Routes(store, op.value) : returned = p.path

\* follow_path has returned on a trail of two splits or more, with a
\* personality that answers True to one call and False to another: the walk
\* selected meets two splits and passes two mountains
C37_Witness ==
    /\ op.name = "follow_path" /\ ret = NoExc
    /\ SplitCount(store) >= 2
    /\ \E i, j \in 1..Len(op.value) : op.value[i] /\ ~op.value[j]
    /\ \E p \in Routes(store, op.value) : Len(p.branches) >= 2 /\ Len(p.path) >= 2
    /\ Len(returned) >= 2

(***************************************************************************)
(* The read-only calls on the DoubleKeyTable, checked under SpecRead.      *)
(***************************************************************************)
ReadOps == {"get", "contains", "keys", "values", "len", "table_size"}

\* C38: get, contains, keys, values, len and table_size leave the table as
\* it was, whatever they return or raise: the outer array with every inner
\* bucket, len, top_length and the size sequences.
C38_ReadsNoEffect ==
    [][(op'.name \in ReadOps) => SelfNext = Self]_vars

\* a get has raised KeyError for a K1 that has no bucket, on a table that
\* holds two buckets, one of them moved by a delete's re-pack
C38_Witness ==
    /\ op.name = "get" /\ ret = "KeyError"
    /\ op.key1 \notin OuterKeys(Self)
    /\ Cardinality(Occupied(Self)) = 2
    /\ \E key1 \in OuterKeys(Self) : Moved(Self, key1)

\* C39: keys(k1) and values(k1) for a K1 that has no stored pair both return
\* the empty list.
C39_AbsentK1Empty ==
    /\ (op.name = "keys" /\ op.key1 # None /\ op.key1 \notin LiveK1(Self)) =>
           /\ ret = NoExc
           /\ returned = [returns |-> "list", list |-> <<>>]
    /\ (op.name = "values" /\ op.key1 # None /\ op.key1 \notin LiveK1(Self)) =>
           /\ ret = NoExc
           /\ returned = <<>>

====
